---- MODULE Spec2Model ----
(***************************************************************************)
(* Verification model of node-shadowsocks: the AEAD stream codec           *)
(* (src/src/encrypt.ts), the SOCKS5 local peer (src/bin/local.js and the   *)
(* TypeScript ss-local in src/unnamed/part_009) and the server peer        *)
(* (src/bin/server.js, src/unnamed/part_005, src/unnamed/part_002).        *)
(*                                                                         *)
(* Buffers are modelled by position.  A plaintext Buffer is a range        *)
(* [a, b) of the plaintext stream (the concatenation of everything written *)
(* to the Encryptor); a ciphertext Buffer is a range [a, b) of the wire    *)
(* (the concatenation of everything the Encryptor pushed).  Lengths,       *)
(* slices and concatenations are computed on the ranges exactly as the     *)
(* code computes them on the bytes.  The AEAD primitives are ideal: an     *)
(* open succeeds only on an unmodified cell sealed under the same key and  *)
(* nonce.                                                                  *)
(***************************************************************************)
EXTENDS Integers, Sequences, FiniteSets, TLC

VARIABLES
  enc,      \* the Encryptor object
  writes,   \* lengths of the chunks written to the Encryptor so far
  wire,     \* the cells the Encryptor has pushed, in order
  seals,    \* nonce of every createCipheriv call of the Encryptor, in order
  dec,      \* the Decryptor object
  fed,      \* number of wire bytes already written to the Decryptor
  out,      \* plaintext pushed to the Decryptor's data output
  fp,       \* payloads carried by the 'firstPayload' events emitted so far
  flip,     \* wire position of the byte tampered in transit, -1 when none
  lens,     \* chunk lengths the writer of this run draws from
  loc,      \* one client connection of the local peer
  srv,      \* one tunnel connection of the server peer
  addr,     \* one address header on its way from a SOCKS5 request to the server's parser
  resolver, \* the resolver of the server: cache, single-flight table, callers
  ctr,      \* one nonce buffer: where it started, its bytes, the calls of increase on it
  relay,    \* one direction of one session: its stream buffers and pauses
  sess,     \* concurrent sessions of one process: the Buffers they hold, the key cache
  hc,       \* one call of Socks5Client.connect of the HTTP proxy
  kc        \* the master-key cache and the calls of evpBytesToKey

codecVars == <<enc, writes, wire, seals, dec, fed, out, fp, flip, lens>>
\* the state of the units that are run on their own
unitVars == <<addr, resolver, ctr, relay, sess, hc, kc>>
vars == <<enc, writes, wire, seals, dec, fed, out, fp, flip, lens, loc, srv, unitVars>>

----------------------------------------------------------------------------
(* Bounds of the model *)

MaxWrites == 2
MaxSmallLen == 2
SmallLens == 0..MaxSmallLen

(* Program constants *)

MAX_PAYLOAD == 16383
TagLen == 16
NonceLen == 12
LenLen == 2

Methods == {"chacha20-poly1305", "aes-256-gcm", "aes-192-gcm", "aes-128-gcm"}

cipherInfoMap ==
  [m \in Methods |->
     CASE m = "chacha20-poly1305" -> [keyLen |-> 32, saltLen |-> 32]
       [] m = "aes-256-gcm"       -> [keyLen |-> 32, saltLen |-> 32]
       [] m = "aes-192-gcm"       -> [keyLen |-> 24, saltLen |-> 24]
       [] m = "aes-128-gcm"       -> [keyLen |-> 16, saltLen |-> 16]]

\* chunk lengths around the MAX_PAYLOAD boundary, for runs of the Encryptor alone
BigLens == {0, 1, MAX_PAYLOAD - 1, MAX_PAYLOAD, MAX_PAYLOAD + 1,
            2 * MAX_PAYLOAD, 2 * MAX_PAYLOAD + 1, 40000}

----------------------------------------------------------------------------
(* Buffers as ranges *)

Buf(a, b) == [a |-> a, b |-> b]
NullBuf == [a |-> -1, b |-> -1]
Length(buf) == buf.b - buf.a

Min(x, y) == IF x < y THEN x ELSE y

\* Buffer.prototype.slice(start, end), indices clamped to the buffer
Slice(buf, start, end) ==
  LET s == Min(start, Length(buf))
      e == Min(IF end < s THEN s ELSE end, Length(buf))
  IN Buf(buf.a + s, buf.a + e)

SliceFrom(buf, start) == Slice(buf, start, Length(buf))

\* Buffer.concat([x, y]) of two adjacent ranges of the same stream
Concat(x, y) == Buf(x.a, y.b)

\* Math.ceil(len / d)
CeilDiv(len, d) == (len + d - 1) \div d

\* writeUInt16BE / readUInt16BE
writeUInt16BE(n) == <<(n \div 256) % 256, n % 256>>
readUInt16BE(b) == b[1] * 256 + b[2]

----------------------------------------------------------------------------
(* Key derivation, symbolic *)

evpBytesToKey(password, keyLen) == [pw |-> password, keyLen |-> keyLen]

hkdf(mainkey, keyLen, salt) == [mainkey |-> mainkey, keyLen |-> keyLen, salt |-> salt]

NoKey == hkdf(evpBytesToKey("", 0), 0, "")

----------------------------------------------------------------------------
(* Nonce counter *)

ZeroNonce == [i \in 1..NonceLen |-> 0]

RECURSIVE increaseFrom(_, _)
increaseFrom(nonce, i) ==
  IF i > NonceLen THEN nonce
  ELSE LET n1 == [nonce EXCEPT ![i] = (nonce[i] + 1) % 256]
       IN IF n1[i] # 0 THEN n1 ELSE increaseFrom(n1, i + 1)

\* faulty variant: the counter incremented at its last byte, as a big-endian integer
increaseBigEndian(nonce) == [nonce EXCEPT ![NonceLen] = (@ + 1) % 256]

increase(nonce) == increaseFrom(nonce, 1)

----------------------------------------------------------------------------
(* Encryptor *)

Password == "test"

NewEncryptor(method) ==
  LET info == cipherInfoMap[method]
      mainkey == evpBytesToKey(Password, info.keyLen)
  IN [method |-> method,
      salt |-> "salt",
      key |-> hkdf(mainkey, info.keyLen, "salt"),
      nonce |-> ZeroNonce,
      isPutSalt |-> FALSE]

\* the cells of the wire
\* (at is the wire position of the cell's first byte, filled in when it is pushed)
SaltCell(e) ==
  [type |-> "salt", len |-> cipherInfoMap[e.method].saltLen, key |-> NoKey,
   nonce |-> ZeroNonce, val |-> <<>>, pt |-> NullBuf, at |-> 0]
LenCell(key, nonce, lenBuf) ==
  [type |-> "len", len |-> LenLen, key |-> key, nonce |-> nonce, val |-> lenBuf, pt |-> NullBuf, at |-> 0]
PayCell(key, nonce, payload) ==
  [type |-> "pay", len |-> Length(payload), key |-> key, nonce |-> nonce, val |-> <<>>, pt |-> payload, at |-> 0]
TagCell(key, nonce) ==
  [type |-> "tag", len |-> TagLen, key |-> key, nonce |-> nonce, val |-> <<>>, pt |-> NullBuf, at |-> 0]

\* the stream after cells are pushed onto it
RECURSIVE PushAll(_, _)
PushAll(stream, cells) ==
  IF cells = <<>> THEN stream
  ELSE LET at == IF stream = <<>> THEN 0 ELSE stream[Len(stream)].at + stream[Len(stream)].len
       IN PushAll(Append(stream, [Head(cells) EXCEPT !.at = at]), Tail(cells))

\* faulty variant: the last frame's length taken as a remainder
payloadLenOfRemainder(i, times, len) ==
  IF i = times THEN len % MAX_PAYLOAD ELSE MAX_PAYLOAD

\* payloadLen of frame i of a chunk of len bytes
payloadLenOf(i, times, len) ==
  IF i = times THEN len - (i - 1) * MAX_PAYLOAD ELSE MAX_PAYLOAD

\* faulty variant: the salt pushed at every update
PutSaltAlways(e) == <<SaltCell(e)>>

\* the salt push at the head of update
PutSalt(e) == IF ~e.isPutSalt THEN <<SaltCell(e)>> ELSE <<>>

\* the loop of update: frames i..times of chunk; st = [nonce, pushed, seals]
RECURSIVE EncryptFrames(_, _, _, _, _)
EncryptFrames(e, chunk, i, times, st) ==
  IF i > times THEN st
  ELSE
    LET startIndex == (i - 1) * MAX_PAYLOAD
        payloadLen == payloadLenOf(i, times, Length(chunk))
        payload == Slice(chunk, startIndex, startIndex + payloadLen)
        nonce1 == st.nonce
        nonce2 == increase(nonce1)
        cells == <<LenCell(e.key, nonce1, writeUInt16BE(payloadLen)), TagCell(e.key, nonce1),
                   PayCell(e.key, nonce2, payload), TagCell(e.key, nonce2)>>
    IN EncryptFrames(e, chunk, i + 1, times,
         [nonce |-> increase(nonce2),
          pushed |-> st.pushed \o cells,
          seals |-> st.seals \o <<nonce1, nonce2>>])

\* Encryptor.update(chunk): the new object, what it pushed, the seals it made
EncryptorUpdate(e, chunk) ==
  LET times == CeilDiv(Length(chunk), MAX_PAYLOAD)
      st == EncryptFrames(e, chunk, 1, times,
              [nonce |-> e.nonce, pushed |-> PutSalt(e), seals |-> <<>>])
  IN [e |-> [e EXCEPT !.isPutSalt = TRUE, !.nonce = st.nonce],
      pushed |-> st.pushed,
      seals |-> st.seals]

RECURSIVE SumLens(_)
SumLens(s) == IF s = <<>> THEN 0 ELSE Head(s) + SumLens(Tail(s))

\* bytes of plaintext written so far / bytes of wire pushed so far
PlainLen == SumLens(writes)
WireLen == IF wire = <<>> THEN 0 ELSE wire[Len(wire)].at + wire[Len(wire)].len

\* encryptor.write(chunk) with a chunk of n bytes
EncWrite(n) ==
  /\ Len(writes) < MaxWrites
  /\ LET r == EncryptorUpdate(enc, Buf(PlainLen, PlainLen + n))
     IN /\ enc' = r.e
        /\ wire' = PushAll(wire, r.pushed)
        /\ seals' = seals \o r.seals
  /\ writes' = Append(writes, n)
  /\ UNCHANGED <<dec, fed, out, fp, flip, lens, loc, srv, unitVars>>

\* a sender that holds the key and seals one frame by hand, in the layout of update:
\* the length cell declares `declared`, the payload is the next n bytes of its plaintext
ForeignFrame(declared, n) ==
  /\ Len(writes) < MaxWrites
  /\ LET nonce1 == enc.nonce
         nonce2 == increase(nonce1)
         cells == PutSalt(enc)
                  \o <<LenCell(enc.key, nonce1, writeUInt16BE(declared)), TagCell(enc.key, nonce1),
                       PayCell(enc.key, nonce2, Buf(PlainLen, PlainLen + n)), TagCell(enc.key, nonce2)>>
     IN /\ enc' = [enc EXCEPT !.isPutSalt = TRUE, !.nonce = increase(nonce2)]
        /\ wire' = PushAll(wire, cells)
        /\ seals' = seals \o <<nonce1, nonce2>>
  /\ writes' = Append(writes, n)
  /\ UNCHANGED <<dec, fed, out, fp, flip, lens, loc, srv, unitVars>>

----------------------------------------------------------------------------
(* The wire as the Decryptor's crypto sees it *)

\* wire position of the first byte of cell i
CellStart(i) == wire[i].at

\* index of the cell of the given type that starts at wire position a, 0 when none
CellAt(a, type) ==
  LET S == {i \in 1..Len(wire) : wire[i].at = a /\ wire[i].type = type}
  IN IF S = {} THEN 0 ELSE CHOOSE i \in S : TRUE

\* the tampered byte lies in [a, b)
Flipped(a, b) == flip >= a /\ flip < b

\* the salt bytes a receiver reads from a wire range
ReadSalt(range) ==
  IF CellAt(range.a, "salt") # 0 /\ wire[CellAt(range.a, "salt")].len = Length(range)
     /\ ~Flipped(range.a, range.b)
  THEN "salt" ELSE "other"

\* plaintext is a sequence of segments: [a, b) of the plaintext stream when ok,
\* b - a bytes that are not the sender's plaintext otherwise
Seg(a, b, ok) == [a |-> a, b |-> b, ok |-> ok]

\* append plaintext bytes to a plaintext byte sequence
AppendSegs(s, t) ==
  IF t = <<>> THEN s
  ELSE IF s = <<>> THEN t
  ELSE LET l == s[Len(s)]
           f == Head(t)
       IN IF l.ok /\ f.ok /\ l.b = f.a
          THEN SubSeq(s, 1, Len(s) - 1) \o <<Seg(l.a, f.b, TRUE)>> \o Tail(t)
          ELSE s \o t

RECURSIVE ConcatSegs(_)
\* Buffer.concat(list) of plaintext buffers
ConcatSegs(list) ==
  IF list = <<>> THEN <<>> ELSE AppendSegs(Head(list), ConcatSegs(Tail(list)))

\* createDecipheriv(method, key, nonce): a, b delimit the wire bytes updated so far
NullCipher == [key |-> NoKey, nonce |-> ZeroNonce, a |-> -2, b |-> -2]
createDecipheriv(key, nonce) == [key |-> key, nonce |-> nonce, a |-> -1, b |-> -1]

\* the segments of plaintext bytes [pa, pa + n) decrypted from wire bytes [wa, wa + n)
GoodSegs(pa, wa, n) ==
  IF n = 0 THEN <<>>
  ELSE IF ~Flipped(wa, wa + n) THEN <<Seg(pa, pa + n, TRUE)>>
  ELSE LET k == flip - wa
       IN (IF k > 0 THEN <<Seg(pa, pa + k, TRUE)>> ELSE <<>>)
          \o <<Seg(pa + k, pa + k + 1, FALSE)>>
          \o (IF k + 1 < n THEN <<Seg(pa + k + 1, pa + n, TRUE)>> ELSE <<>>)

\* the pay cell a decipher is positioned in, when it is fed range next; 0 when none
PayCellOf(c, range) ==
  LET start == IF c.a = -1 THEN range.a ELSE c.a
      i == CellAt(start, "pay")
  IN IF i # 0 /\ wire[i].key = c.key /\ wire[i].nonce = c.nonce
        /\ (c.a = -1 \/ c.b = range.a)
        /\ range.b <= start + wire[i].len
     THEN i ELSE 0

\* decipher.update(range): the plaintext bytes it returns
DecipherUpdate(c, range) ==
  IF Length(range) = 0 THEN <<>>
  ELSE LET i == PayCellOf(c, range)
       IN IF i = 0 THEN <<Seg(range.a, range.b, FALSE)>>
          ELSE GoodSegs(wire[i].pt.a + (range.a - CellStart(i)), range.a, Length(range))

\* the decipher after update(range)
DecipherAfter(c, range) ==
  IF Length(range) = 0 THEN c
  ELSE [c EXCEPT !.a = IF c.a = -1 THEN range.a ELSE c.a, !.b = range.b]

\* setAuthTag(tag); final() of a payload decipher: TRUE when the tag verifies
DecipherFinal(c, tag) ==
  LET start == IF c.a = -1 THEN tag.a ELSE c.a
      i == CellAt(start, "pay")
  IN /\ i # 0
     /\ wire[i].key = c.key /\ wire[i].nonce = c.nonce
     /\ (IF c.a = -1 THEN wire[i].len = 0 ELSE c.b = c.a + wire[i].len)
     /\ tag.a = start + wire[i].len
     /\ Length(tag) = TagLen
     /\ CellAt(tag.a, "tag") = i + 1
     /\ ~Flipped(start, tag.b)

\* cipher1 of the length cell: setAuthTag(chunk.slice(2, 18)); update(chunk.slice(0, 2)); final()
OpenLen(key, nonce, ct, tag) ==
  LET i == CellAt(ct.a, "len")
  IN IF /\ i # 0
        /\ wire[i].key = key /\ wire[i].nonce = nonce
        /\ Length(ct) = LenLen /\ Length(tag) = TagLen
        /\ CellAt(tag.a, "tag") = i + 1
        /\ ~Flipped(ct.a, tag.b)
     THEN [ok |-> TRUE, lenBuf |-> wire[i].val]
     ELSE [ok |-> FALSE, lenBuf |-> <<0, 0>>]

----------------------------------------------------------------------------
(* Decryptor *)

NewDecryptor(method, emitFirstPayload) ==
  LET info == cipherInfoMap[method]
  IN [method |-> method,
      keyLen |-> info.keyLen,
      saltLen |-> info.saltLen,
      mainkey |-> evpBytesToKey(Password, info.keyLen),
      isGotSalt |-> FALSE,
      nonce |-> ZeroNonce,
      salt |-> "",
      key |-> NoKey,
      emitFirstPayload |-> emitFirstPayload,
      emitedFirstPayload |-> FALSE,
      firstPayloads |-> <<>>,
      buf |-> NullBuf,
      state |-> 1,
      payloadLen |-> 0,
      handledPayloadLen |-> 0,
      cipher2 |-> NullCipher,
      verified |-> 0,      \* history: plaintext bytes of the frames whose payload tag verified
      err |-> "",          \* the error update threw, "" when none
      flushed |-> ""]      \* how the stream ended: "" not yet, "end", or the error of _flush

\* faulty variant: the hold test without the _emitedFirstPayload latch
HoldModeNoLatch(d) == d.emitFirstPayload

\* the test that routes decrypted payload to _firstPayloads instead of push
HoldMode(d) == d.emitFirstPayload /\ ~d.emitedFirstPayload

\* r = [d: the object, pushed: plaintext pushed in this call, events: firstPayload events]
Throw(r, msg) == [r EXCEPT !.d.err = msg]

\* hand decrypted payload bytes to _firstPayloads or to push
Deliver(r, transed) ==
  IF HoldMode(r.d)
  THEN [r EXCEPT !.d.firstPayloads = Append(@, transed)]
  ELSE [r EXCEPT !.pushed = AppendSegs(@, transed)]

RECURSIVE DecryptLoop(_, _)

\* state 4, after the tag: return, or go round the loop with the rest of chunk
TagRest(r, chunk) ==
  IF Length(chunk) = TagLen THEN r ELSE DecryptLoop(r, SliceFrom(chunk, TagLen))

\* faulty variant: the staged length and the handled count kept across frames
ResetFrameStale(d) ==
  [d EXCEPT !.nonce = increase(d.nonce),
            !.cipher2 = NullCipher,
            !.state = 1,
            !.verified = @ + d.payloadLen]

\* state 4, the tag has verified: reset for the next frame
ResetFrame(d) ==
  [d EXCEPT !.nonce = increase(d.nonce),
            !.cipher2 = NullCipher,
            !.state = 1,
            !.verified = @ + d.payloadLen,
            !.payloadLen = 0,
            !.handledPayloadLen = 0]

\* state 4, the tag has verified: emit 'firstPayload' when holding
EmitFirstPayload(r, d1) ==
  IF HoldMode(r.d)
  THEN [r EXCEPT !.d = [d1 EXCEPT !.emitedFirstPayload = TRUE, !.firstPayloads = <<>>],
                 !.events = Append(@, ConcatSegs(r.d.firstPayloads))]
  ELSE [r EXCEPT !.d = d1]

\* state 4: the payload tag
TagBlock(r, chunk) ==
  IF Length(chunk) < TagLen THEN [r EXCEPT !.d.buf = chunk]
  ELSE IF ~DecipherFinal(r.d.cipher2, Slice(chunk, 0, TagLen)) THEN Throw(r, "auth")
  ELSE TagRest(EmitFirstPayload(r, ResetFrame(r.d)), chunk)

\* state 3, after the last payload bytes: return, or go on to the tag
PayloadRest(r, chunk, leftLen) ==
  IF leftLen = Length(chunk) THEN r ELSE TagBlock(r, SliceFrom(chunk, leftLen))

\* faulty variant: payload bytes kept in the carry buffer until the payload is whole
PayloadWithCarry(r, chunk, c) ==
  IF Length(chunk) + r.d.handledPayloadLen < r.d.payloadLen
  THEN [r EXCEPT !.d.buf = chunk]
  ELSE PayloadRest(
         Deliver([r EXCEPT !.d.cipher2 = DecipherAfter(c, Slice(chunk, 0, r.d.payloadLen)),
                           !.d.state = 4,
                           !.d.handledPayloadLen = r.d.payloadLen],
                 DecipherUpdate(c, Slice(chunk, 0, r.d.payloadLen))),
         chunk, r.d.payloadLen)

\* state 3 with the payload decipher c
PayloadWith(r, chunk, c) ==
  IF Length(chunk) + r.d.handledPayloadLen < r.d.payloadLen
  THEN Deliver([r EXCEPT !.d.cipher2 = DecipherAfter(c, chunk),
                         !.d.handledPayloadLen = @ + Length(chunk)],
               DecipherUpdate(c, chunk))
  ELSE PayloadRest(
         Deliver([r EXCEPT !.d.cipher2 =
                             DecipherAfter(c, Slice(chunk, 0, r.d.payloadLen - r.d.handledPayloadLen)),
                           !.d.state = 4,
                           !.d.handledPayloadLen = r.d.payloadLen],
                 DecipherUpdate(c, Slice(chunk, 0, r.d.payloadLen - r.d.handledPayloadLen))),
         chunk, r.d.payloadLen - r.d.handledPayloadLen)

\* state 3: the payload
PayloadBlock(r, chunk) ==
  PayloadWith(r, chunk,
    IF r.d.cipher2 = NullCipher THEN createDecipheriv(r.d.key, r.d.nonce) ELSE r.d.cipher2)

\* states 1 and 2, the length is read: check it and go on to the payload
LengthChecked(r, chunk) ==
  IF r.d.payloadLen > MAX_PAYLOAD THEN Throw(r, "invalid payload len")
  ELSE IF Length(chunk) = LenLen + TagLen THEN [r EXCEPT !.d.state = 3]
  ELSE PayloadBlock([r EXCEPT !.d.state = 3], SliceFrom(chunk, LenLen + TagLen))

\* states 1 and 2, with the result o of opening the length cell
LengthOpened(r, chunk, o) ==
  IF ~o.ok THEN Throw(r, "auth")
  ELSE LengthChecked([r EXCEPT !.d.nonce = increase(r.d.nonce),
                               !.d.payloadLen = readUInt16BE(o.lenBuf)],
                     chunk)

\* states 1 and 2: the length cell
LengthBlock(r, chunk) ==
  IF Length(chunk) < LenLen + TagLen THEN [r EXCEPT !.d.state = 2, !.d.buf = chunk]
  ELSE LengthOpened([r EXCEPT !.d.state = 2], chunk,
         OpenLen(r.d.key, r.d.nonce, Slice(chunk, 0, LenLen), Slice(chunk, LenLen, LenLen + TagLen)))

\* one turn of the while (true) loop of update
DecryptLoop(r, chunk) ==
  IF r.d.state = 1 \/ r.d.state = 2 THEN LengthBlock(r, chunk)
  ELSE IF r.d.state = 3 THEN PayloadBlock(r, chunk)
  ELSE TagBlock(r, chunk)

\* faulty variant: the subkey derived from the configured salt, the salt read ignored
GotSaltFixed(r, salt) ==
  [r EXCEPT !.d.salt = "salt",
            !.d.key = hkdf(r.d.mainkey, r.d.keyLen, "salt"),
            !.d.isGotSalt = TRUE]

\* the salt is read: derive the subkey
GotSalt(r, salt) ==
  [r EXCEPT !.d.salt = salt,
            !.d.key = hkdf(r.d.mainkey, r.d.keyLen, salt),
            !.d.isGotSalt = TRUE]

\* update after the carry buffer is prepended
UpdateChunk(r, chunk) ==
  IF ~r.d.isGotSalt
  THEN IF Length(chunk) < r.d.saltLen THEN Throw(r, "invalid salt")
       ELSE IF Length(chunk) = r.d.saltLen THEN GotSalt(r, ReadSalt(Slice(chunk, 0, r.d.saltLen)))
       ELSE DecryptLoop(GotSalt(r, ReadSalt(Slice(chunk, 0, r.d.saltLen))),
                        SliceFrom(chunk, r.d.saltLen))
  ELSE DecryptLoop(r, chunk)

\* Decryptor.update(chunk)
DecryptorUpdate(d, chunk) ==
  UpdateChunk([d |-> [d EXCEPT !.buf = NullBuf], pushed |-> <<>>, events |-> <<>>],
              IF d.buf # NullBuf THEN Concat(d.buf, chunk) ELSE chunk)

\* faulty variant: a Transform without _flush
DecryptorFlushNone(d) == "end"

\* _flush: the outcome of decryptor.end()
DecryptorFlush(d) == IF d.state # 1 THEN "invalid data" ELSE "end"

\* the source ended after the bytes fed so far: the pipe calls decryptor.end()
DecEnd ==
  /\ dec.err = "" /\ dec.flushed = ""
  /\ dec' = [dec EXCEPT !.flushed = DecryptorFlush(dec)]
  /\ UNCHANGED <<enc, writes, wire, seals, fed, out, fp, flip, lens, loc, srv, unitVars>>

\* decryptor.write(chunk) with the next n bytes of the wire: _transform
DecWrite(n) ==
  /\ dec.err = "" /\ dec.flushed = ""
  /\ fed + n <= WireLen
  /\ \E r \in {DecryptorUpdate(dec, Buf(fed, fed + n))} :
        /\ dec' = r.d
        /\ out' = AppendSegs(out, r.pushed)
        /\ fp' = fp \o r.events
  /\ fed' = fed + n
  /\ UNCHANGED <<enc, writes, wire, seals, flip, lens, loc, srv, unitVars>>

\* the transport flips a bit of the byte at wire position p, which is still in flight
Tamper(p) ==
  /\ flip = -1
  /\ fed <= p /\ p < WireLen
  /\ flip' = p
  /\ UNCHANGED <<enc, writes, wire, seals, dec, fed, out, fp, lens, loc, srv, unitVars>>

----------------------------------------------------------------------------
(* The local peer: one client connection handled by SocketHandler.         *)
(* impl "js" is bin/local.js, impl "ts" is ss-local.ts with config.tunnel. *)

Impls == {"js", "ts"}
Tunnels == {"tcp", "ws", "wss"}

\* SOCKS5 messages written to the client
MethodReply(m) == <<5, m>>
Reply(rep) == <<5, rep, 0, 1, 0, 0, 0, 0, 0, 0>>

NewSocketHandler(impl, tunnel) ==
  [impl |-> impl,
   tunnel |-> tunnel,             \* config.tunnel
   pc |-> "authentication",       \* authentication, request, connecting, relay, finished
   sock |-> "open",               \* client socket: open, ended, destroyed
   sockTimer |-> TRUE,            \* the client socket's inactivity timer is armed and has not fired
   toClient |-> <<>>,             \* messages written to the client socket while it accepts writes
   lateWrites |-> 0,              \* writes made after the client socket was ended or destroyed
   tun |-> "none",                \* tunnel: none, connecting, open, closed (by the server), destroyed
   tunEnded |-> FALSE,            \* end() was called on the tunnel
   tunTimer |-> FALSE,            \* the tunnel's inactivity timer is armed and has not fired
   replyed |-> FALSE,             \* the replyed flag of bin/local.js
   wired |-> FALSE,               \* the pipes between client socket and tunnel are set up
   clientEnded |-> FALSE,         \* the client socket emitted 'end'
   toTunnel |-> {},               \* kinds of bytes written to the tunnel
   fromTunnel |-> {},             \* kinds of bytes delivered from the tunnel to the client socket
   greeting |-> <<>>,             \* history: the greeting consumed by authentication()
   request |-> <<>>,              \* history: <<VER, CMD, ATYP>> of the request consumed by request()
   requestData |-> <<>>,          \* history: the bytes of the request consumed by request()
   head |-> <<>>,                 \* the header handed to the tunnel
   events |-> {},                 \* history: events that happened after the tunnel was created
   connected |-> FALSE,           \* history: the tunnel transport emitted 'connect' / 'open'
   failedConnect |-> FALSE,       \* history: the tunnel failed before it connected
   clientGone |-> FALSE]          \* history: the client socket was closed before the tunnel failed

\* socket.write(msg)
SockWrite(l, msg) ==
  IF l.sock = "open" THEN [l EXCEPT !.toClient = Append(@, msg)]
  ELSE [l EXCEPT !.lateWrites = @ + 1]

\* socket.end()
SockEnd(l) == IF l.sock = "open" THEN [l EXCEPT !.sock = "ended"] ELSE l

\* tunnel.end()
TunEnd(l) == IF l.tun \in {"connecting", "open"} THEN [l EXCEPT !.tunEnded = TRUE] ELSE l

\* tunnel.destroy() of the ts peer, with the tunnel's 'close' handler:
\* the tcp tunnel destroys the client socket, the WebSocket tunnel only logs
TunDestroy(l) ==
  LET l1 == [l EXCEPT !.tun = "destroyed", !.tunTimer = FALSE]
  IN IF l.tunnel = "tcp" /\ l1.sock # "destroyed" THEN [l1 EXCEPT !.sock = "destroyed"] ELSE l1

\* socket.destroy(): in the ts peer the 'close' handler destroys the tunnel
SockDestroy(l) ==
  LET l1 == [l EXCEPT !.sock = "destroyed"]
  IN IF l.impl = "ts" /\ l1.tun \in {"connecting", "open", "closed"} THEN TunDestroy(l1) ELSE l1

\* reply(rep)
DoReply(l, rep) == SockWrite(l, Reply(rep))

\* data.slice(start, end) of a received message, bytes numbered from 0
ByteSlice(data, start, end) == SubSeq(data, start + 1, Min(end, Len(data)))

\* data[i], bytes numbered from 0
At(data, i) == IF i < Len(data) THEN data[i + 1] ELSE -1

\* (head[i] << 8) | head[i + 1]: undefined counts as 0 in the bit operations
PortAt(head, i) ==
  (IF At(head, i) < 0 THEN 0 ELSE At(head, i)) * 256
  + (IF At(head, i + 1) < 0 THEN 0 ELSE At(head, i + 1))

\* the switch of request(): the header cut out of the request
ExtractHead(data) ==
  CASE At(data, 3) = 1 -> ByteSlice(data, 3, 10)
    [] At(data, 3) = 3 -> ByteSlice(data, 3, IF At(data, 4) < 0 THEN 0 ELSE 7 + At(data, 4))
    [] At(data, 3) = 4 -> ByteSlice(data, 3, 22)
    [] OTHER -> <<>>

\* methods.includes(b)
Includes(bytes, b) == \E i \in 1..Len(bytes) : bytes[i] = b

\* faulty variant: the methods read to the end of the message, NMETHODS ignored
OfferedIgnoringCount(data) == ByteSlice(data, 2, Len(data))

\* const nmethods = data[1]; const methods = data.slice(2, 2 + nmethods)
Offered(data) ==
  IF Len(data) < 2 THEN <<>> ELSE ByteSlice(data, 2, 2 + data[2])

\* authentication(): the greeting is the first 'data' event of the client socket
Authentication(l, data) ==
  LET l0 == [l EXCEPT !.greeting = data]
  IN IF data[1] # 5
     THEN [(IF l.impl = "js" THEN SockEnd(l0) ELSE SockDestroy(l0)) EXCEPT !.pc = "finished"]
     ELSE IF Includes(Offered(data), 0)
          THEN [SockWrite(l0, MethodReply(0)) EXCEPT !.pc = "request"]
          ELSE [SockEnd(SockWrite(l0, MethodReply(255))) EXCEPT !.pc = "finished"]

\* faulty variant: the client connection left open after the reply
RefuseKeepOpen(l) == [l EXCEPT !.pc = "finished"]

\* the close of the client connection after a refused request
RefuseClose(l) == [(IF l.impl = "js" THEN SockEnd(l) ELSE SockDestroy(l)) EXCEPT !.pc = "finished"]

\* useWebSocketTunnel(head): new WebSocket(endpoint), then reply and wiring at once;
\* the head is written to the tunnel as it is
UseWebSocketTunnel(l) ==
  [DoReply([l EXCEPT !.tun = "connecting"], 0)
     EXCEPT !.pc = "relay", !.wired = TRUE, !.toTunnel = @ \cup {"plain:head"}]

\* the creation of the tcp tunnel: net.createConnection and the handlers
CreateTcpTunnel(l) ==
  [l EXCEPT !.tun = "connecting", !.tunTimer = (l.impl = "js"), !.pc = "connecting"]

\* faulty variant: a request served whatever its command
RequestAnyCommand(l, ver, cmd, atyp) ==
  LET l0 == [l EXCEPT !.request = <<ver, cmd, atyp>>]
  IN IF ver # 5 THEN RefuseClose(l0)
     ELSE IF atyp \notin {1, 3, 4} THEN RefuseClose(DoReply(l0, 8))
     ELSE IF l.impl = "ts" /\ l.tunnel \in {"ws", "wss"} THEN UseWebSocketTunnel(l0)
     ELSE CreateTcpTunnel(l0)

\* request(): [ver, cmd, atyp]
Request(l, ver, cmd, atyp) ==
  LET l0 == [l EXCEPT !.request = <<ver, cmd, atyp>>]
  IN IF ver # 5 THEN RefuseClose(l0)
     ELSE IF cmd # 1 THEN RefuseClose(DoReply(l0, 7))
     ELSE IF atyp \notin {1, 3, 4} THEN RefuseClose(DoReply(l0, 8))
     ELSE IF l.impl = "ts" /\ l.tunnel \in {"ws", "wss"} THEN UseWebSocketTunnel(l0)
     ELSE CreateTcpTunnel(l0)

\* the wiring of the tcp tunnel: encryptor.pipe(tunnel), encryptor.write(head),
\* socket.pipe(encryptor), tunnel.pipe(decryptor).pipe(socket); a client socket
\* that has already ended ends the encryptor, and with it the tunnel
WireTcp(l) ==
  LET l1 == [l EXCEPT !.wired = TRUE, !.toTunnel = @ \cup {"encryptor:head"}, !.pc = "relay"]
  IN IF l1.clientEnded THEN TunEnd(l1) ELSE l1

\* the tunnel's 'connect' handler (tcp), or the WebSocket's open
OnTunnelConnect(l) ==
  LET l1 == [l EXCEPT !.tun = "open", !.connected = TRUE]
  IN IF l.impl = "js"
     THEN WireTcp([DoReply([l1 EXCEPT !.tunTimer = TRUE], 0) EXCEPT !.replyed = TRUE])
     ELSE IF l.tunnel = "tcp"
          THEN WireTcp(DoReply([l1 EXCEPT !.tunTimer = TRUE], 0))
          ELSE l1

\* history of an event on a session whose tunnel has been created
NoteEvent(l, ev) == IF l.tun = "none" THEN l ELSE [l EXCEPT !.events = @ \cup {ev}]

\* history of a tunnel failure
NoteFailure(l) ==
  IF l.connected THEN l
  ELSE [l EXCEPT !.failedConnect = TRUE, !.clientGone = (l.sock # "open")]

\* the tunnel's 'error' handler, and the 'close' that follows the error
OnTunnelError(l) ==
  LET l0 == NoteFailure(NoteEvent(l, "tunnelError"))
  IN IF l.impl = "js"
     THEN SockEnd([(IF ~l0.replyed THEN DoReply(l0, 5) ELSE l0)
                    EXCEPT !.tun = "destroyed", !.tunTimer = FALSE])
     ELSE TunDestroy(l0)

\* the tunnel's 'timeout' handler
OnTunnelTimeout(l) ==
  LET l0 == NoteFailure(l)
  IN IF l.impl = "js"
     THEN SockEnd(TunEnd([(IF ~l0.replyed THEN DoReply(l0, 5) ELSE l0) EXCEPT !.tunTimer = FALSE]))
     ELSE TunDestroy(l0)

\* the tunnel's 'end': the server closed the tunnel.  The tcp tunnel closes, its pipe ends
\* the decryptor and the decryptor's pipe ends the client socket; the WebSocket stream
\* ends and its pipe ends the client socket
OnTunnelEnd(l) ==
  LET l0 == NoteEvent(l, "tunnelEOF")
  IN IF l.impl = "js" THEN SockEnd([l0 EXCEPT !.tun = "destroyed", !.tunTimer = FALSE])
     ELSE IF l.tunnel = "tcp" THEN TunDestroy(l0)
     ELSE SockEnd([l0 EXCEPT !.tun = "closed"])

\* the decryptor's 'error' handler
OnDecryptorError(l) ==
  LET l0 == NoteEvent(l, "decryptorError")
  IN IF l.impl = "js" THEN TunEnd(SockEnd(l0)) ELSE TunDestroy(l0)

\* the client socket's 'timeout' handler
OnSocketTimeout(l) ==
  LET l0 == [l EXCEPT !.sockTimer = FALSE]
  IN IF l.impl = "js" THEN SockEnd(l0) ELSE SockDestroy(l0)

\* the client socket's 'error' handler, and the 'close' that follows the error
OnSocketError(l) == SockDestroy(NoteEvent(l, "clientError"))

\* the client socket's 'end': the socket closes (allowHalfOpen is off), its pipe ends
\* the encryptor or the WebSocket stream, and with it the tunnel
OnSocketEnd(l) ==
  LET l0 == [NoteEvent(l, "clientEOF") EXCEPT !.clientEnded = TRUE]
  IN SockDestroy(IF l0.wired THEN TunEnd(l0) ELSE l0)

\* a 'data' event of the client socket in the relay phase
OnSocketData(l) ==
  [l EXCEPT !.toTunnel = @ \cup {IF l.tunnel = "tcp" THEN "encryptor:client" ELSE "plain:client"},
            !.sockTimer = TRUE,
            !.tunTimer = (l.tunnel = "tcp" /\ l.tun = "open")]

\* a 'data' event of the tunnel in the relay phase
OnTunnelData(l) ==
  [l EXCEPT !.fromTunnel = @ \cup {IF l.tunnel = "tcp" THEN "decryptor" ELSE "plain"},
            !.sockTimer = TRUE,
            !.tunTimer = (l.tunnel = "tcp")]

LocAuthentication(data) ==
  /\ loc.pc = "authentication" /\ loc.sock = "open"
  /\ loc' = Authentication(loc, data)
  /\ UNCHANGED <<codecVars, srv, unitVars>>

\* request() on the bytes of the 'data' event that follows the greeting: the fields it
\* reads, and the header it cuts out for the tunnel
RequestData(l, data) ==
  LET l1 == Request([l EXCEPT !.requestData = data], At(data, 0), At(data, 1), At(data, 3))
  IN IF l1.tun = "none" THEN l1 ELSE [l1 EXCEPT !.head = ExtractHead(data)]

LocRequest(data) ==
  /\ loc.pc = "request" /\ loc.sock = "open"
  /\ loc' = RequestData(loc, data)
  /\ UNCHANGED <<codecVars, srv, unitVars>>

TunnelConnect ==
  /\ loc.tun = "connecting"
  /\ loc' = OnTunnelConnect(loc)
  /\ UNCHANGED <<codecVars, srv, unitVars>>

TunnelError ==
  /\ loc.tun \in {"connecting", "open"}
  /\ loc' = OnTunnelError(loc)
  /\ UNCHANGED <<codecVars, srv, unitVars>>

TunnelTimeout ==
  /\ loc.tun \in {"connecting", "open"} /\ loc.tunTimer
  /\ loc' = OnTunnelTimeout(loc)
  /\ UNCHANGED <<codecVars, srv, unitVars>>

TunnelEnd ==
  /\ loc.tun = "open"
  /\ loc' = OnTunnelEnd(loc)
  /\ UNCHANGED <<codecVars, srv, unitVars>>

TunnelData ==
  /\ loc.tun = "open" /\ loc.wired /\ loc.sock = "open"
  /\ loc' = OnTunnelData(loc)
  /\ UNCHANGED <<codecVars, srv, unitVars>>

DecryptorError ==
  /\ loc.tun = "open" /\ loc.wired /\ loc.tunnel = "tcp"
  /\ loc' = OnDecryptorError(loc)
  /\ UNCHANGED <<codecVars, srv, unitVars>>

SocketTimeout ==
  /\ loc.sock # "destroyed" /\ loc.sockTimer
  /\ loc' = OnSocketTimeout(loc)
  /\ UNCHANGED <<codecVars, srv, unitVars>>

SocketError ==
  /\ loc.sock # "destroyed"
  /\ loc' = OnSocketError(loc)
  /\ UNCHANGED <<codecVars, srv, unitVars>>

SocketEnd ==
  /\ loc.sock # "destroyed" /\ ~loc.clientEnded
  /\ loc' = OnSocketEnd(loc)
  /\ UNCHANGED <<codecVars, srv, unitVars>>

SocketData ==
  /\ loc.sock = "open" /\ loc.wired /\ loc.tun \in {"connecting", "open"} /\ ~loc.tunEnded
  /\ loc' = OnSocketData(loc)
  /\ UNCHANGED <<codecVars, srv, unitVars>>

\* greetings: VER, NMETHODS, METHODS; a greeting followed by a stray byte; greetings
\* that end before NMETHODS or before the last method
GreetingVers == {4, 5}
GreetingMethods == {<<>>, <<0>>, <<2>>, <<0, 2>>, <<2, 0>>}
Greetings ==
  {<<ver, Len(ms)>> \o ms : ver \in GreetingVers, ms \in GreetingMethods}
  \cup {<<5, 1, 2, 0>>, <<5>>, <<5, 2, 0>>, <<5, 2, 2>>}
\* requests: VER, CMD, RSV, then a header of each address type, whole or cut short,
\* a header of another type, or nothing
RequestCmds == {1, 2}
RequestHeaders ==
  {<<1, 127, 0, 0, 1, 0, 80>>, <<1, 127, 0>>,
   <<3, 1, 97, 0, 80>>, <<3, 3, 97>>, <<3>>,
   <<4, 0, 0, 0, 0, 0, 0, 0, 0, 0, 0, 0, 0, 0, 0, 0, 1, 0, 80>>, <<4, 0, 0>>,
   <<2, 0, 0, 0, 0, 0, 80>>, <<>>}
Requests == {<<ver, cmd, 0>> \o h : ver \in GreetingVers, cmd \in RequestCmds, h \in RequestHeaders}

NextLocal ==
  \/ \E data \in Greetings : LocAuthentication(data)
  \/ \E data \in Requests : LocRequest(data)
  \/ TunnelConnect
  \/ TunnelError
  \/ TunnelTimeout
  \/ TunnelEnd
  \/ TunnelData
  \/ DecryptorError
  \/ SocketTimeout
  \/ SocketError
  \/ SocketEnd
  \/ SocketData

----------------------------------------------------------------------------
(* The server peer: one tunnel connection.  impl "js" is bin/server.js,    *)
(* impl "ts" is ss-server.ts (src/unnamed/part_005), impl "ws" is the      *)
(* WebSocket server with the codec (src/unnamed/part_002).  The plaintext  *)
(* decrypted after the first payload is a sequence of chunks 1, 2, ...     *)

SrvImpls == {"js", "ts", "ws"}

\* chunks decrypted after the first payload in one session
MaxChunks == 2

\* seconds of inactivity when the configuration names none
DefaultTimeout == 300

\* this.timeout = (options.timeout || 300) * 1000
TimeoutOf(configured) == (IF configured = 0 THEN DefaultTimeout ELSE configured) * 1000

\* a first payload: its ATYP byte, its length, its length byte when it is a domain,
\* and what the resolver does with the domain
AddrHead(atyp, len, domainLen, dns) == [atyp |-> atyp, len |-> len, domainLen |-> domainLen, dns |-> dns]
NoHead == AddrHead(0, 0, 0, "none")

\* parseAddressFromSocks5Head(head): the bytes needed by the declared ATYP, or 0 on a throw
NeededBytes(head) ==
  IF head.atyp = 1 THEN (IF head.len < 7 THEN 0 ELSE 7)
  ELSE IF head.atyp = 3
       THEN IF head.len < 2 THEN head.len      \* head[1] is undefined: no comparison is true
            ELSE IF head.len < 4 + head.domainLen THEN 0 ELSE 4 + head.domainLen
  ELSE IF head.atyp = 4 THEN (IF head.len < 19 THEN 0 ELSE 19)
  ELSE 0

\* parseAddressFromSocks5Head(head): ok is FALSE when it throws
ParseAddress(head) ==
  LET need == NeededBytes(head)
      domain == head.atyp = 3 /\ head.len >= 2 /\ head.domainLen > 0
  IN IF need = 0 THEN [ok |-> FALSE, headLeft |-> FALSE]
     ELSE IF domain /\ head.dns = "fail" THEN [ok |-> FALSE, headLeft |-> FALSE]
     ELSE [ok |-> TRUE, headLeft |-> head.len > need]

NewServerHandler(impl, configured) ==
  [impl |-> impl,
   configured |-> configured,     \* options.timeout, 0 when the configuration names none
   timeout |-> TimeoutOf(configured),
   pc |-> "handshake",            \* handshake, parsing, connecting, relay, refused
   sock |-> "open",               \* peer connection: open, ended, destroyed
   sockTimeout |-> IF impl = "ws" THEN 0 ELSE TimeoutOf(configured),   \* socket.setTimeout
   sockTimer |-> impl # "ws",     \* the peer connection's timer is armed and has not fired
   proxy |-> "none",              \* upstream socket: none, connecting, open, destroyed
   proxyEnded |-> FALSE,          \* end() was called on the upstream socket
   proxyTimeout |-> 0,            \* proxy.setTimeout
   proxyTimer |-> FALSE,          \* the upstream socket's timer is armed and has not fired
   head |-> NoHead,               \* the first payload
   headLeft |-> FALSE,            \* the first payload holds bytes after the address header
   paused |-> FALSE,              \* decryptor.pause() without resume()
   rbuf |-> <<>>,                 \* chunks pushed by the decryptor and not yet emitted as 'data'
   decrypted |-> 0,               \* chunks decrypted after the first payload
   decEnded |-> FALSE,            \* the decryptor's input has ended
   endEmitted |-> FALSE,          \* the decryptor emitted 'end'
   decError |-> FALSE,            \* the decryptor emitted 'error'
   beforeProxyBuffer |-> <<>>,    \* _beforeProxyBuffer of bin/server.js
   proxyOk |-> FALSE,             \* _proxyOk of bin/server.js
   decryptorEnd |-> FALSE,        \* _decryptorEnd of bin/server.js
   upstream |-> <<>>,             \* what was written to the upstream socket, in order
   upstreamEndAt |-> -1,          \* Len(upstream) when the end handler ended the upstream
   early |-> FALSE,               \* a write reached the upstream socket before it connected
   lost |-> 0,                    \* writes made to an ended or destroyed upstream socket
   crashed |-> FALSE,             \* a handler used the upstream socket while it was unset
   timedOut |-> {},               \* history: timers that fired while both endpoints existed
   eofBeforeConnect |-> FALSE,    \* history: the peer's EOF came after the first payload and
                                  \* before the upstream socket connected
   events |-> {}]                 \* history: events that happened after the upstream was created

\* socket.end(), or ws.close()
SrvSockEnd(s) == IF s.sock = "open" THEN [s EXCEPT !.sock = "ended"] ELSE s

\* proxy.write(item)
ProxyWrite(s, item) ==
  IF s.proxy = "none" THEN [s EXCEPT !.crashed = TRUE]
  ELSE IF s.proxy \in {"connecting", "open"} /\ ~s.proxyEnded
       THEN [s EXCEPT !.upstream = Append(@, item), !.early = @ \/ (s.proxy = "connecting"),
                      !.proxyTimer = TRUE]
       ELSE [s EXCEPT !.lost = 1]

\* proxy.end()
ProxyEnd(s) ==
  IF s.proxy = "none" THEN [s EXCEPT !.crashed = TRUE]
  ELSE IF s.proxy \in {"connecting", "open"} /\ ~s.proxyEnded
       THEN [s EXCEPT !.proxyEnded = TRUE]
       ELSE s

\* if (this.proxy) this.proxy.end()
ProxyEndIfSet(s) == IF s.proxy = "none" THEN s ELSE ProxyEnd(s)

\* proxy.destroy()
ProxyDestroy(s) == [s EXCEPT !.proxy = "destroyed", !.proxyTimer = FALSE]

\* history of an event on a session whose upstream socket has been created
SrvNoteEvent(s, ev) == IF s.proxy = "none" THEN s ELSE [s EXCEPT !.events = @ \cup {ev}]

\* the 'firstPayload' handler: the ts and ws servers pause the decryptor
OnFirstPayload(s, head) ==
  [s EXCEPT !.head = head, !.pc = "parsing", !.paused = (s.impl # "js"), !.sockTimer = (s.impl # "ws")]

\* handleProxy: net.createConnection, proxy.setTimeout and the handlers
HandleProxy(s, headLeft) ==
  [s EXCEPT !.proxy = "connecting", !.proxyTimeout = s.timeout, !.proxyTimer = TRUE,
            !.headLeft = headLeft, !.pc = "connecting"]

\* the outcome of parseAddress: on a throw the tcp servers end the peer socket and the
\* WebSocket server returns
OnParsed(s) ==
  LET r == ParseAddress(s.head)
  IN IF r.ok THEN HandleProxy(s, r.headLeft)
     ELSE [(IF s.impl = "ws" THEN s ELSE SrvSockEnd(s)) EXCEPT !.pc = "refused"]

\* faulty variant: decrypted chunks written to the upstream socket as they come
OnDataUnbuffered(s, chunk) == ProxyWrite(s, chunk)

\* the decryptor's 'data' handler
OnData(s, chunk) ==
  IF s.impl = "js"
  THEN IF s.proxyOk THEN ProxyWrite(s, chunk)
       ELSE [s EXCEPT !.beforeProxyBuffer = Append(@, chunk)]
  ELSE ProxyWrite(s, chunk)

\* the decryptor's 'end' handler
OnEnd(s) ==
  LET s1 == [s EXCEPT !.endEmitted = TRUE]
  IN IF s.impl = "js"
     THEN IF s.proxyOk THEN [ProxyEnd(s1) EXCEPT !.upstreamEndAt = Len(s1.upstream)]
          ELSE [s1 EXCEPT !.decryptorEnd = TRUE]
     ELSE [ProxyEnd(s1) EXCEPT !.upstreamEndAt = Len(s1.upstream)]

RECURSIVE WriteAll(_, _)
\* proxy.write of the buffered chunks, in their order
WriteAll(s, items) ==
  IF items = <<>> THEN s ELSE WriteAll(ProxyWrite(s, Head(items)), Tail(items))

\* the upstream socket's 'connect' handler
OnProxyConnect(s) ==
  LET s1 == [s EXCEPT !.proxy = "open", !.pc = "relay"]
      s2 == IF s.headLeft THEN ProxyWrite(s1, "headLeft") ELSE s1
  IN IF s.impl = "js"
     THEN LET s3 == [WriteAll(s2, s2.beforeProxyBuffer) EXCEPT !.beforeProxyBuffer = <<>>, !.proxyOk = TRUE]
          IN IF s3.decryptorEnd THEN [ProxyEnd(s3) EXCEPT !.upstreamEndAt = Len(s3.upstream)] ELSE s3
     ELSE [s2 EXCEPT !.paused = FALSE]

\* the decryptor's 'error' handler
OnSrvDecryptorError(s) ==
  LET s0 == [SrvNoteEvent(s, "decryptorError") EXCEPT !.decError = TRUE]
  IN IF s.impl = "ws"
     THEN SrvSockEnd(IF s0.proxy \in {"connecting", "open"} THEN ProxyDestroy(s0) ELSE s0)
     ELSE ProxyEndIfSet(SrvSockEnd(s0))

\* the peer socket's 'error' handler; the WebSocket stream's 'error' handler logs and
\* the WebSocket closes
OnSrvSocketError(s) == [SrvNoteEvent(s, "peerError") EXCEPT !.sock = "destroyed", !.sockTimer = FALSE]

\* the peer's EOF: the pipe ends the decryptor and the connection closes
OnSrvSocketEnd(s) ==
  [SrvNoteEvent(s, "peerEOF") EXCEPT !.sock = "destroyed", !.sockTimer = FALSE, !.decEnded = TRUE,
        !.eofBeforeConnect = (s.pc \in {"parsing", "connecting"})]

\* the peer socket's 'timeout' handler of the tcp servers; for the WebSocket server
\* the timer that closes the connection after ws.close()
OnSrvSocketTimeout(s) ==
  LET s0 == [s EXCEPT !.sockTimer = FALSE,
                      !.timedOut = IF s.impl # "ws" /\ s.proxy \in {"connecting", "open"}
                                   THEN @ \cup {"peer"} ELSE @]
  IN IF s.impl = "ws" THEN [s0 EXCEPT !.sock = "destroyed"] ELSE SrvSockEnd(s0)

\* the upstream socket's 'error' handler
OnProxyError(s) == SrvSockEnd(ProxyDestroy(SrvNoteEvent(s, "upstreamError")))

\* the upstream socket's 'timeout' handler
OnProxyTimeout(s) ==
  LET s0 == [SrvNoteEvent(s, "upstreamTimeout") EXCEPT !.proxyTimer = FALSE,
                      !.timedOut = IF s.sock # "destroyed" THEN @ \cup {"upstream"} ELSE @]
  IN SrvSockEnd(ProxyEnd(s0))

\* the upstream's EOF: the upstream socket closes, its pipe ends the encryptor and the
\* encryptor's pipe ends the peer connection
OnProxyEnd(s) == SrvSockEnd(ProxyDestroy(SrvNoteEvent(s, "upstreamEOF")))

\* heads of every ATYP: exact, followed by payload, short, and the domain's resolutions
FirstHeads ==
  {AddrHead(1, 7, 0, "none"), AddrHead(1, 9, 0, "none"), AddrHead(1, 5, 0, "none"),
   AddrHead(3, 7, 3, "ok"), AddrHead(3, 9, 3, "ok"), AddrHead(3, 7, 3, "fail"), AddrHead(3, 5, 3, "ok"),
   AddrHead(3, 1, 0, "none"),
   AddrHead(4, 19, 0, "none"), AddrHead(4, 10, 0, "none"),
   AddrHead(2, 7, 0, "none")}

\* timeouts of the configuration, in seconds; 0 when it names none
ConfiguredTimeouts == {0, 60}

SrvFirstPayload(head) ==
  /\ srv.pc = "handshake" /\ srv.sock = "open" /\ ~srv.decError /\ ~srv.decEnded
  /\ srv' = OnFirstPayload(srv, head)
  /\ UNCHANGED <<codecVars, loc, unitVars>>

SrvParsed ==
  /\ srv.pc = "parsing"
  /\ srv' = OnParsed(srv)
  /\ UNCHANGED <<codecVars, loc, unitVars>>

\* the peer sends one more frame: the decryptor pushes its plaintext
SrvDecrypt ==
  /\ srv.pc \in {"parsing", "connecting", "relay"} /\ srv.sock = "open"
  /\ ~srv.decError /\ ~srv.decEnded /\ srv.decrypted < MaxChunks
  /\ srv' = [srv EXCEPT !.decrypted = @ + 1, !.rbuf = Append(@, srv.decrypted + 1),
                        !.sockTimer = (srv.impl # "ws")]
  /\ UNCHANGED <<codecVars, loc, unitVars>>

\* the decryptor emits 'data'
SrvFlow ==
  /\ ~srv.paused /\ srv.rbuf # <<>> /\ ~srv.decError
  /\ srv' = OnData([srv EXCEPT !.rbuf = Tail(@)], Head(srv.rbuf))
  /\ UNCHANGED <<codecVars, loc, unitVars>>

\* the decryptor emits 'end'
SrvEndEmit ==
  /\ ~srv.paused /\ srv.rbuf = <<>> /\ srv.decEnded /\ ~srv.endEmitted /\ ~srv.decError
  /\ srv' = OnEnd(srv)
  /\ UNCHANGED <<codecVars, loc, unitVars>>

SrvProxyConnect ==
  /\ srv.proxy = "connecting"
  /\ srv' = OnProxyConnect(srv)
  /\ UNCHANGED <<codecVars, loc, unitVars>>

SrvDecryptorError ==
  /\ srv.sock = "open" /\ ~srv.decError /\ ~srv.decEnded
  /\ srv' = OnSrvDecryptorError(srv)
  /\ UNCHANGED <<codecVars, loc, unitVars>>

SrvSocketError ==
  /\ srv.sock # "destroyed"
  /\ srv' = OnSrvSocketError(srv)
  /\ UNCHANGED <<codecVars, loc, unitVars>>

SrvSocketEnd ==
  /\ srv.sock # "destroyed" /\ ~srv.decEnded
  /\ srv' = OnSrvSocketEnd(srv)
  /\ UNCHANGED <<codecVars, loc, unitVars>>

SrvSocketTimeout ==
  /\ srv.sock # "destroyed"
  /\ IF srv.impl = "ws" THEN srv.sock = "ended" ELSE srv.sockTimer
  /\ srv' = OnSrvSocketTimeout(srv)
  /\ UNCHANGED <<codecVars, loc, unitVars>>

SrvProxyError ==
  /\ srv.proxy \in {"connecting", "open"}
  /\ srv' = OnProxyError(srv)
  /\ UNCHANGED <<codecVars, loc, unitVars>>

SrvProxyTimeout ==
  /\ srv.proxy \in {"connecting", "open"} /\ srv.proxyTimer
  /\ srv' = OnProxyTimeout(srv)
  /\ UNCHANGED <<codecVars, loc, unitVars>>

SrvProxyEnd ==
  /\ srv.proxy = "open"
  /\ srv' = OnProxyEnd(srv)
  /\ UNCHANGED <<codecVars, loc, unitVars>>

NextServer ==
  \/ \E head \in FirstHeads : SrvFirstPayload(head)
  \/ SrvParsed
  \/ SrvDecrypt
  \/ SrvFlow
  \/ SrvEndEmit
  \/ SrvProxyConnect
  \/ SrvDecryptorError
  \/ SrvSocketError
  \/ SrvSocketEnd
  \/ SrvSocketTimeout
  \/ SrvProxyError
  \/ SrvProxyTimeout
  \/ SrvProxyEnd

----------------------------------------------------------------------------
(* The address header: the bytes the local peer cuts out of a SOCKS5       *)
(* request (request() of ss-local.ts and bin/local.js) and the parser the  *)
(* servers run on the first payload (parseAddressFromSocks5Head).  A       *)
(* Buffer is the sequence of its bytes; an index past the end reads        *)
(* undefined, modelled as -1.                                              *)

\* head.toString('ascii', start, end): the high bit of every byte is cleared
ToAscii(head, start, end) ==
  LET bytes == ByteSlice(head, start, end)
  IN [i \in 1..Len(bytes) |-> bytes[i] % 128]

\* the labels of a name: the pieces between its dots (46), numbered from 1
DotsOf(s) == {i \in 1..Len(s) : s[i] = 46}
LabelOf(s, k) ==
  LET dots == DotsOf(s)
      before == {i \in dots : Cardinality({j \in dots : j < i}) = k - 2}
      after == {i \in dots : Cardinality({j \in dots : j < i}) = k - 1}
  IN SubSeq(s, IF before = {} THEN 1 ELSE (CHOOSE i \in before : TRUE) + 1,
               IF after = {} THEN Len(s) ELSE (CHOOSE i \in after : TRUE) - 1)

\* a decimal number 0..255 without leading zero
RECURSIVE Decimal(_)
Decimal(l) == IF l = <<>> THEN 0 ELSE 10 * Decimal(SubSeq(l, 1, Len(l) - 1)) + (l[Len(l)] - 48)
DecimalOctet(l) ==
  /\ Len(l) \in 1..3
  /\ \A i \in 1..Len(l) : l[i] \in 48..57
  /\ (Len(l) > 1 => l[1] # 48)
  /\ Decimal(l) <= 255

\* isIP(domain), for names that are not IPv6 literals
isIP(domain) ==
  Cardinality(DotsOf(domain)) = 3 /\ \A k \in 1..4 : DecimalOctet(LabelOf(domain, k))

\* ipv6.toStr(bytes): the textual form of the 16 address bytes, kept as the bytes
toStr(bytes) == bytes

\* the result of the parser: the Address, or the error thrown
Address(type, host, port, domain, headLeft) ==
  [ok |-> TRUE, type |-> type, host |-> host, port |-> port, domain |-> domain,
   headLeft |-> headLeft]
ParseError(msg) ==
  [ok |-> FALSE, type |-> msg, host |-> <<>>, port |-> 0, domain |-> <<>>, headLeft |-> <<>>]

\* the "find ip by dns" step: answer is what lookup resolves the name to, <<>> when
\* the resolution fails or finds no address
FindIp(a, dnslookup, answer) ==
  IF a.domain # <<>> /\ dnslookup
  THEN IF isIP(a.domain) THEN [a EXCEPT !.host = a.domain]
       ELSE IF answer = <<>> THEN ParseError("lookup")
       ELSE [a EXCEPT !.host = answer]
  ELSE a

\* parseAddressFromSocks5Head(head, dnslookup); headLeft null is the empty sequence
parseAddressFromSocks5Head(head, dnslookup, answer) ==
  LET headLen == Len(head)
      domainLen == At(head, 1)
  IN CASE At(head, 0) = 1 ->
            IF headLen < 7 THEN ParseError("invalid ipv4 data")
            ELSE Address("ipv4", ByteSlice(head, 1, 5), PortAt(head, 5), <<>>,
                         IF headLen > 7 THEN ByteSlice(head, 7, headLen) ELSE <<>>)
       [] At(head, 0) = 3 ->
            IF domainLen >= 0 /\ headLen < 4 + domainLen THEN ParseError("invalid domain data")
            ELSE IF domainLen < 0 THEN Address("domain", <<>>, 0, <<>>, <<>>)
            ELSE FindIp(Address("domain", <<>>, PortAt(head, 2 + domainLen),
                                ToAscii(head, 2, 2 + domainLen),
                                IF headLen > 4 + domainLen
                                THEN ByteSlice(head, 4 + domainLen, headLen) ELSE <<>>),
                        dnslookup, answer)
       [] At(head, 0) = 4 ->
            IF headLen < 19 THEN ParseError("invalid ipv6 data")
            ELSE Address("ipv6", toStr(ByteSlice(head, 1, 17)), PortAt(head, 17), <<>>,
                         IF headLen > 19 THEN ByteSlice(head, 19, headLen) ELSE <<>>)
       [] OTHER -> ParseError("ATYP not support")

\* a header on its way: the request it is cut from, the header, the parser's result
NewHeader(pc, data, head) ==
  [pc |-> pc, data |-> data, head |-> head, answer |-> <<>>, result |-> ParseError("")]

\* the local peer cuts the header out of a CONNECT request
AddrExtract ==
  /\ addr.pc = "request"
  /\ addr' = [addr EXCEPT !.pc = "head", !.head = ExtractHead(addr.data)]
  /\ UNCHANGED <<codecVars, loc, srv, resolver, ctr, relay, sess, hc, kc>>

\* the server parses the header, with the resolver's answer for a name
AddrParse(answer) ==
  /\ addr.pc = "head"
  /\ addr' = [addr EXCEPT !.pc = "parsed", !.answer = answer,
                          !.result = parseAddressFromSocks5Head(addr.head, TRUE, answer)]
  /\ UNCHANGED <<codecVars, loc, srv, resolver, ctr, relay, sess, hc, kc>>

\* destinations: addresses of each kind, ports around the byte boundaries
Repeat(b, n) == [i \in 1..n |-> b]
Ipv4Hosts == {<<0, 0, 0, 0>>, <<127, 0, 0, 1>>, <<255, 255, 255, 255>>}
DomainNames == {<<97>>, <<97, 46, 98>>, <<49, 46, 50, 46, 51, 46, 52>>, Repeat(97, 255)}
Ipv6Hosts == {Repeat(0, 16), Repeat(0, 15) \o <<1>>, Repeat(255, 16)}
Ports == {0, 80, 255, 256, 443, 65535}
Destinations ==
  {<<"ipv4", h, p>> : h \in Ipv4Hosts, p \in Ports}
  \cup {<<"domain", h, p>> : h \in DomainNames, p \in Ports}
  \cup {<<"ipv6", h, p>> : h \in Ipv6Hosts, p \in Ports}

\* the header of a destination, as a SOCKS5 client writes it
HeaderOf(d) ==
  (CASE d[1] = "ipv4" -> <<1>> \o d[2]
     [] d[1] = "domain" -> <<3, Len(d[2])>> \o d[2]
     [] d[1] = "ipv6" -> <<4>> \o d[2])
  \o <<d[3] \div 256, d[3] % 256>>

\* well-formed CONNECT requests: VER, CMD, RSV, then the header
ConnectRequests == {<<5, 1, 0>> \o HeaderOf(d) : d \in Destinations}

\* buffers handed to the parser: every header cut short at every length, every header
\* followed by payload bytes, and buffers whose first byte is no address type
Trailers == {<<>>, <<71>>, <<71, 69, 84>>}
RawHeads ==
  {ByteSlice(HeaderOf(d), 0, k) : d \in Destinations, k \in 0..25}
  \cup {ByteSlice(HeaderOf(d), 0, Len(HeaderOf(d)) - 1) : d \in Destinations}
  \cup {HeaderOf(d) \o t : d \in Destinations, t \in Trailers}
  \cup {<<a>> \o t : a \in {0, 2, 5, 255}, t \in {<<>>, <<1, 2, 3, 4, 0, 80>>}}
  \cup {<<3, 0, 0, 80>>}

\* what the resolver may answer
Answers == {<<>>, <<10, 0, 0, 1>>}

\* no header under way
IdleAddr == addr = NewHeader("parsed", <<>>, <<>>)

----------------------------------------------------------------------------
(* The resolver: lookup(hostname) of utils.ts, with its LRU cache and the  *)
(* Singleflight table.  JavaScript runs each call of lookup up to its      *)
(* await, and each completion with the continuations of its waiters, in    *)
(* one piece.                                                              *)

MaxCallers == 3
Callers == 1..MaxCallers
Hosts == {"a.example", "b.example"}
Ips == {"10.0.0.1"}

\* cache: hostname -> address, "none" when absent; flight: hostname -> the resolution
\* the Singleflight table holds for it, 0 when none; raw: hostname -> number of
\* dns.lookup calls outstanding; outcome: what each resolution gave
NewResolver ==
  [cache |-> [h \in Hosts |-> "none"],
   flight |-> [h \in Hosts |-> 0],
   raw |-> [h \in Hosts |-> 0],
   started |-> 0,
   outcome |-> [i \in Callers |-> "pending"],
   callers |-> [c \in Callers |-> [pc |-> "idle", host |-> "", joined |-> 0, during |-> 0,
                                   result |-> ""]]]

\* faulty variant: rawLookup called for every caller that misses the cache
SfDoAlone(r, c, h) ==
  [r EXCEPT !.flight[h] = r.started + 1,
            !.raw[h] = @ + 1,
            !.started = @ + 1,
            !.callers[c].joined = r.started + 1]

\* sf.do(hostname, () => rawLookup(hostname)): join the resolution in flight, or start one
SfDo(r, c, h) ==
  IF r.flight[h] # 0 THEN [r EXCEPT !.callers[c].joined = r.flight[h]]
  ELSE [r EXCEPT !.flight[h] = r.started + 1,
                 !.raw[h] = @ + 1,
                 !.started = @ + 1,
                 !.callers[c].joined = r.started + 1]

\* lookup(hostname) up to its await; during: the resolution outstanding when it is called
Lookup(r, c, h) ==
  LET r0 == [r EXCEPT !.callers[c].host = h, !.callers[c].during = r.flight[h]]
  IN IF r.cache[h] # "none"
     THEN [r0 EXCEPT !.callers[c].pc = "done", !.callers[c].result = r.cache[h]]
     ELSE [SfDo(r0, c, h) EXCEPT !.callers[c].pc = "waiting"]

\* the dns.lookup of resolution i of hostname h settles: the table drops the key, every
\* waiter of it goes on; on success each sets the cache and returns the address, on
\* failure each throws
Settle(r, h, i, got) ==
  [r EXCEPT !.raw[h] = @ - 1,
            !.flight[h] = IF @ = i THEN 0 ELSE @,
            !.outcome[i] = got,
            !.cache[h] = IF got = "fail" THEN @ ELSE got,
            !.callers = [c \in Callers |->
                           IF r.callers[c].pc = "waiting" /\ r.callers[c].joined = i
                           THEN [r.callers[c] EXCEPT !.pc = "done", !.result = got]
                           ELSE r.callers[c]]]

DnsLookup(c, h) ==
  /\ resolver.callers[c].pc = "idle"
  /\ resolver' = Lookup(resolver, c, h)
  /\ UNCHANGED <<codecVars, loc, srv, addr, ctr, relay, sess, hc, kc>>

DnsSettle(h, i, got) ==
  /\ resolver.outcome[i] = "pending"
  /\ \E c \in Callers : resolver.callers[c].pc = "waiting" /\ resolver.callers[c].joined = i
                         /\ resolver.callers[c].host = h
  /\ resolver' = Settle(resolver, h, i, got)
  /\ UNCHANGED <<codecVars, loc, srv, addr, ctr, relay, sess, hc, kc>>

\* the cache drops an entry: its ttl ran out, or the LRU evicted it
DnsExpire(h) ==
  /\ resolver.cache[h] # "none"
  /\ resolver' = [resolver EXCEPT !.cache[h] = "none"]
  /\ UNCHANGED <<codecVars, loc, srv, addr, ctr, relay, sess, hc, kc>>

\* no lookup under way
IdleDns == resolver = NewResolver

----------------------------------------------------------------------------
(* The nonce counter on its own: increase(nonce) called again and again on *)
(* one 12-byte buffer.                                                     *)

MaxCalls == 3

NewCounter(start) == [start |-> start, nonce |-> start, calls |-> 0]

\* increase(this.nonce)
NonceIncrease ==
  /\ ctr.calls < MaxCalls
  /\ ctr' = [ctr EXCEPT !.nonce = increase(@), !.calls = @ + 1]
  /\ UNCHANGED <<codecVars, loc, srv, addr, resolver, relay, sess, hc, kc>>

\* values a counter holds on its way from zero to 2^96 - 1: every run of 0xFF bytes,
\* with the lowest byte also one step before its carry
CounterValues ==
  {[i \in 1..NonceLen |-> IF i = 1 THEN lo ELSE hi[i]] :
     lo \in {0, 254, 255}, hi \in [2..NonceLen -> {0, 255}]}

IdleCtr == ctr = NewCounter(ZeroNonce)

----------------------------------------------------------------------------
(* One direction of a session as Node's streams run it: the source socket, *)
(* the codec Transform, the destination socket.  A Writable takes every    *)
(* write into its buffer and answers false once the buffer holds           *)
(* HighWaterMark; pipe() pauses its source on that answer and resumes it   *)
(* on 'drain'.  Buffers are counted in chunks.                             *)

HighWaterMark == 2
MaxRead == 6

RelayPeers == {"local.js", "local.ts", "server.js", "server.ts", "server.ws"}
RelayDirs == {"up", "down"}

\* how the codec's output reaches the destination: the local peers pipe both
\* directions (socket.pipe(encryptor), encryptor.pipe(tunnel);
\* tunnel.pipe(decryptor).pipe(socket)); the servers pipe the upstream's bytes
\* (proxy.pipe(encryptor).pipe(socket)) and hand the peer's bytes to a 'data' handler
\* that calls proxy.write(chunk)
WiringOf(peer, dir) ==
  IF peer \in {"server.js", "server.ts", "server.ws"} /\ dir = "up" THEN "data" ELSE "pipe"

NewRelay(peer, dir) ==
  [peer |-> peer,
   dir |-> dir,
   wiring |-> WiringOf(peer, dir),
   draining |-> TRUE,      \* the destination takes bytes off its buffer
   srcPaused |-> FALSE,    \* the source socket is paused: nothing is read from it
   tbuf |-> 0,             \* chunks written to the codec and not yet pushed on
   codecPaused |-> FALSE,  \* the codec's readable side is paused
   wbuf |-> 0,             \* chunks in the destination's write buffer
   read |-> 0]             \* chunks read from the source so far

\* source.pipe(codec): a chunk is read and written to the codec; the source is paused
\* when the write answers false
OnSourceData(f) ==
  [f EXCEPT !.read = @ + 1, !.tbuf = @ + 1, !.srcPaused = (f.tbuf + 1 >= HighWaterMark)]

\* the codec hands one chunk on: codec.pipe(destination) writes it and pauses the codec
\* when the write answers false; the 'data' handler writes it and drops the answer.
\* The codec's own buffer emptied resumes the source.
OnCodecData(f) ==
  [f EXCEPT !.tbuf = @ - 1, !.wbuf = @ + 1,
            !.codecPaused = (f.wiring = "pipe" /\ f.wbuf + 1 >= HighWaterMark),
            !.srcPaused = IF f.tbuf - 1 = 0 THEN FALSE ELSE @]

\* the destination sends one chunk; 'drain' when its buffer emptied resumes a piped codec
OnDestinationSent(f) ==
  [f EXCEPT !.wbuf = @ - 1,
            !.codecPaused = IF f.wbuf - 1 = 0 THEN FALSE ELSE @]

RelayRead ==
  /\ ~relay.srcPaused /\ relay.read < MaxRead
  /\ relay' = OnSourceData(relay)
  /\ UNCHANGED <<codecVars, loc, srv, addr, resolver, ctr, sess, hc, kc>>

RelayCodec ==
  /\ relay.tbuf > 0 /\ ~relay.codecPaused
  /\ relay' = OnCodecData(relay)
  /\ UNCHANGED <<codecVars, loc, srv, addr, resolver, ctr, sess, hc, kc>>

RelaySent ==
  /\ relay.draining /\ relay.wbuf > 0
  /\ relay' = OnDestinationSent(relay)
  /\ UNCHANGED <<codecVars, loc, srv, addr, resolver, ctr, sess, hc, kc>>

\* the far end of the destination stops, or starts again, taking bytes
RelayStall ==
  /\ relay' = [relay EXCEPT !.draining = ~@]
  /\ UNCHANGED <<codecVars, loc, srv, addr, resolver, ctr, sess, hc, kc>>

IdleRelay == relay = NewRelay("local.ts", "up")

----------------------------------------------------------------------------
(* Concurrent sessions of one server process.  Buffers that are written in *)
(* place or handed around by reference (the cached master keys, the nonce  *)
(* buffers) live in a heap and are held by their index; the subkeys are    *)
(* fresh Buffers returned by hkdf and are held by value.  JavaScript runs  *)
(* each constructor and each call of update in one piece.                  *)

Sessions == {1, 2}
MaxFrames == 1
SessMethods == {"aes-128-gcm", "aes-256-gcm"}
SessSalts == {"s1", "s2"}
KeyLens == {cipherInfoMap[m].keyLen : m \in Methods}

NewSession ==
  [open |-> FALSE,        \* the SocketHandler was constructed
   socket |-> 0,          \* this.socket / this.proxy: where its decryptor's output goes
   method |-> "",
   mainkey |-> 0,         \* heap index of the Decryptor's this.mainkey
   decNonce |-> 0,        \* heap index of the Decryptor's this.nonce
   decKey |-> NoKey,      \* the Decryptor's this.key
   isGotSalt |-> FALSE,
   buf |-> FALSE,         \* this._buf holds the bytes of an unfinished cell
   state |-> 1,           \* this._state: 1 at a length cell, 3 at a payload cell
   opened |-> 0,          \* frames decrypted
   encNonce |-> 0,        \* heap index of the Encryptor's this.nonce, 0 before 'connect'
   encKey |-> NoKey,      \* the Encryptor's this.key
   isPutSalt |-> FALSE,
   sealed |-> 0]          \* frames encrypted

\* keyCache: keyLen -> heap index of the cached key, 0 when absent (one password is
\* configured, so password + keyLen names the keyLen); delivered: what reached each
\* session's own end as plaintext, as <<session that decrypted it, frame>>
NoSessions ==
  [heap |-> <<>>,
   keyCache |-> [k \in KeyLens |-> 0],
   s |-> [j \in Sessions |-> NewSession],
   delivered |-> [j \in Sessions |-> <<>>],
   last |-> 0]

\* evpBytesToKey(password, keyLen) with its cache: the state after the call; the value
\* returned is the Buffer at keyCache[keyLen]
CachedKey(S, keyLen) ==
  IF S.keyCache[keyLen] # 0 THEN S
  ELSE [S EXCEPT !.heap = Append(@, [kind |-> "mainkey", val |-> evpBytesToKey(Password, keyLen)]),
                 !.keyCache[keyLen] = Len(S.heap) + 1]

\* faulty variant: one nonce buffer for the whole module
NonceBufferShared(S) ==
  IF \E i \in 1..Len(S.heap) : S.heap[i].kind = "nonce"
  THEN [S |-> S, id |-> CHOOSE i \in 1..Len(S.heap) : S.heap[i].kind = "nonce"]
  ELSE [S |-> [S EXCEPT !.heap = Append(@, [kind |-> "nonce", val |-> ZeroNonce])],
        id |-> Len(S.heap) + 1]

\* this.nonce = Buffer.alloc(12)
NonceBuffer(S) ==
  [S |-> [S EXCEPT !.heap = Append(@, [kind |-> "nonce", val |-> ZeroNonce])],
   id |-> Len(S.heap) + 1]

\* new SocketHandler(socket, options): this.socket and new Decryptor(method, password)
NewSocketDecryptor(S, j, method) ==
  LET keyLen == cipherInfoMap[method].keyLen
      S1 == CachedKey(S, keyLen)
      nb == NonceBuffer(S1)
  IN [nb.S EXCEPT !.s[j] = [NewSession EXCEPT !.open = TRUE, !.socket = j, !.method = method,
                                              !.mainkey = S1.keyCache[keyLen],
                                              !.decNonce = nb.id],
                  !.last = j]

\* the proxy's 'connect' handler: new Encryptor(method, password)
NewSocketEncryptor(S, j, salt) ==
  LET keyLen == cipherInfoMap[S.s[j].method].keyLen
      S1 == CachedKey(S, keyLen)
      nb == NonceBuffer(S1)
  IN [nb.S EXCEPT !.s[j].encNonce = nb.id,
                  !.s[j].encKey = hkdf(S1.heap[S1.keyCache[keyLen]].val, keyLen, salt),
                  !.last = j]

\* Encryptor.update of a chunk of one frame: the salt once, two cells, two increases
SessionSeal(S, j) ==
  [S EXCEPT !.heap[S.s[j].encNonce].val = increase(increase(@)),
            !.s[j].isPutSalt = TRUE,
            !.s[j].sealed = @ + 1,
            !.last = j]

\* Decryptor.update, the salt: this.key = hkdf(this.mainkey, ...)
SessionSalt(S, j, salt) ==
  [S EXCEPT !.s[j].decKey = hkdf(S.heap[S.s[j].mainkey].val, cipherInfoMap[S.s[j].method].keyLen, salt),
            !.s[j].isGotSalt = TRUE,
            !.last = j]

\* Decryptor.update, a chunk that ends inside a cell: this._buf = chunk
SessionCarry(S, j) == [S EXCEPT !.s[j].buf = TRUE, !.last = j]

\* Decryptor.update, a length cell: increase(this.nonce), this._state = 3
SessionLength(S, j) ==
  [S EXCEPT !.heap[S.s[j].decNonce].val = increase(@),
            !.s[j].buf = FALSE,
            !.s[j].state = 3,
            !.last = j]

\* Decryptor.update, a payload cell: increase(this.nonce), this._state = 1, the plaintext
\* pushed; the handler's 'data' handler writes it to this.proxy
SessionPayload(S, j) ==
  [S EXCEPT !.heap[S.s[j].decNonce].val = increase(@),
            !.s[j].buf = FALSE,
            !.s[j].state = 1,
            !.s[j].opened = @ + 1,
            !.delivered[S.s[j].socket] = Append(@, <<j, S.s[j].opened + 1>>),
            !.last = j]

SessOpen(j, method) ==
  /\ ~sess.s[j].open
  /\ sess' = NewSocketDecryptor(sess, j, method)
  /\ UNCHANGED <<codecVars, loc, srv, addr, resolver, ctr, relay, hc, kc>>

SessConnect(j, salt) ==
  /\ sess.s[j].open /\ sess.s[j].encNonce = 0
  /\ sess' = NewSocketEncryptor(sess, j, salt)
  /\ UNCHANGED <<codecVars, loc, srv, addr, resolver, ctr, relay, hc, kc>>

SessSeal(j) ==
  /\ sess.s[j].encNonce # 0 /\ sess.s[j].sealed < MaxFrames
  /\ sess' = SessionSeal(sess, j)
  /\ UNCHANGED <<codecVars, loc, srv, addr, resolver, ctr, relay, hc, kc>>

SessSalt(j, salt) ==
  /\ sess.s[j].open /\ ~sess.s[j].isGotSalt
  /\ sess' = SessionSalt(sess, j, salt)
  /\ UNCHANGED <<codecVars, loc, srv, addr, resolver, ctr, relay, hc, kc>>

SessCarry(j) ==
  /\ sess.s[j].isGotSalt /\ ~sess.s[j].buf /\ sess.s[j].opened < MaxFrames
  /\ sess' = SessionCarry(sess, j)
  /\ UNCHANGED <<codecVars, loc, srv, addr, resolver, ctr, relay, hc, kc>>

SessLength(j) ==
  /\ sess.s[j].isGotSalt /\ sess.s[j].state = 1 /\ sess.s[j].opened < MaxFrames
  /\ sess' = SessionLength(sess, j)
  /\ UNCHANGED <<codecVars, loc, srv, addr, resolver, ctr, relay, hc, kc>>

SessPayload(j) ==
  /\ sess.s[j].isGotSalt /\ sess.s[j].state = 3
  /\ sess' = SessionPayload(sess, j)
  /\ UNCHANGED <<codecVars, loc, srv, addr, resolver, ctr, relay, hc, kc>>

IdleSess == sess = NoSessions

----------------------------------------------------------------------------
(* The HTTP proxy's SOCKS5 client: one call of Socks5Client.connect(host,  *)
(* port), which returns a promise and runs the SOCKS5 handshake in the     *)
(* handlers of its socket.                                                 *)

\* buf.writeInt16BE(value) on a 2-byte buffer: a value outside the signed 16-bit range
\* throws ERR_OUT_OF_RANGE
writeInt16BE(value) ==
  IF value < -32768 \/ value > 32767 THEN [ok |-> FALSE, bytes |-> <<>>]
  ELSE [ok |-> TRUE, bytes |-> <<(value \div 256) % 256, value % 256>>]

NewConnect(host, port) ==
  [host |-> host,
   port |-> port,
   pc |-> "connecting",     \* connecting, method, request, thrown, done
   sent |-> <<>>,           \* messages written to the socket
   socket |-> "open",       \* open, destroyed
   promise |-> "pending"]   \* pending, resolved, rejected

\* reject(err): a settled promise stays as it is
HcReject(c) == IF c.promise = "pending" THEN [c EXCEPT !.promise = "rejected"] ELSE c

\* the 'connect' handler up to its first await: the greeting
OnHcConnect(c) == [c EXCEPT !.pc = "method", !.sent = Append(@, <<5, 1, 0>>)]

\* the 'connect' handler after the method reply: the request with host and port, up to
\* the second await; an exception leaves the async handler and settles nothing
OnHcMethodReply(c, res) ==
  IF res # <<5, 0>> THEN [HcReject(c) EXCEPT !.socket = "destroyed", !.pc = "done"]
  ELSE LET portBuf == writeInt16BE(c.port)
       IN IF ~portBuf.ok THEN [c EXCEPT !.pc = "thrown"]
          ELSE [c EXCEPT !.pc = "request",
                         !.sent = Append(@, <<5, 1, 0, 3, Len(c.host) % 256>> \o c.host \o portBuf.bytes)]

\* the 'connect' handler after the request reply
OnHcReply(c, res2) ==
  IF res2[1] # 5 \/ res2[2] # 0 THEN [HcReject(c) EXCEPT !.socket = "destroyed", !.pc = "done"]
  ELSE [c EXCEPT !.promise = "resolved", !.pc = "done"]

\* socket.once('error', reject)
OnHcError(c) == [HcReject(c) EXCEPT !.socket = "destroyed", !.pc = "done"]

HcConnect ==
  /\ hc.pc = "connecting"
  /\ hc' = OnHcConnect(hc)
  /\ UNCHANGED <<codecVars, loc, srv, addr, resolver, ctr, relay, sess, kc>>

HcMethodReply(res) ==
  /\ hc.pc = "method"
  /\ hc' = OnHcMethodReply(hc, res)
  /\ UNCHANGED <<codecVars, loc, srv, addr, resolver, ctr, relay, sess, kc>>

HcReply(res2) ==
  /\ hc.pc = "request"
  /\ hc' = OnHcReply(hc, res2)
  /\ UNCHANGED <<codecVars, loc, srv, addr, resolver, ctr, relay, sess, kc>>

HcError ==
  /\ hc.socket = "open" /\ hc.pc # "done"
  /\ hc' = OnHcError(hc)
  /\ UNCHANGED <<codecVars, loc, srv, addr, resolver, ctr, relay, sess, kc>>

HcHosts == {<<97>>, <<97, 46, 98>>}
HcPorts == {0, 1, 80, 255, 256, 443, 8080, 32767, 32768, 40000, 65535}

IdleHc == hc = NewConnect(<<97>>, 80)

----------------------------------------------------------------------------
(* The master-key cache on its own: calls of evpBytesToKey(password,       *)
(* keyLen).  A password is the sequence of its characters, so that the     *)
(* cache key password + keyLen is the string the code builds.              *)

MaxKeyCalls == 3

DigitChars == <<"0", "1", "2", "3", "4", "5", "6", "7", "8", "9">>

RECURSIVE DecimalString(_)
\* String(n) of a non-negative integer
DecimalString(n) ==
  IF n < 10 THEN <<DigitChars[n + 1]>>
  ELSE DecimalString(n \div 10) \o <<DigitChars[(n % 10) + 1]>>

\* faulty variant: the cache keyed by the password alone
CacheKeyOfPassword(password, keyLen) == password

\* const cacheKey = password + keyLen
CacheKey(password, keyLen) == password \o DecimalString(keyLen)

\* keyCache: the entries set so far; calls: history of the calls and what they returned
NoKeyCache == [cache |-> {}, calls |-> <<>>]

\* evpBytesToKey(password, keyLen): the cache after the call and the value returned;
\* _evpBytesToKey is the derivation, a function of the password bytes and keyLen
EvpBytesToKeyCached(cache, password, keyLen) ==
  LET cacheKey == CacheKey(password, keyLen)
      hit == {e \in cache : e.key = cacheKey}
      value == evpBytesToKey(password, keyLen)
  IN IF hit # {} THEN [cache |-> cache, value |-> (CHOOSE e \in hit : TRUE).value]
     ELSE [cache |-> cache \cup {[key |-> cacheKey, value |-> value]}, value |-> value]

KeyCall(password, keyLen) ==
  /\ Len(kc.calls) < MaxKeyCalls
  /\ LET r == EvpBytesToKeyCached(kc.cache, password, keyLen)
     IN kc' = [cache |-> r.cache,
               calls |-> Append(kc.calls, [password |-> password, keyLen |-> keyLen,
                                           value |-> r.value])]
  /\ UNCHANGED <<codecVars, loc, srv, addr, resolver, ctr, relay, sess, hc>>

\* passwords whose last characters are digits, among them prefixes of one another
KeyPasswords ==
  {<<>>, <<"a">>, <<"a", "1">>, <<"a", "1", "6">>, <<"1">>, <<"a", "3">>}

IdleKc == kc = NoKeyCache

\* the units at rest, while another part of the program is run
InitUnits == IdleAddr /\ IdleDns /\ IdleCtr /\ IdleRelay /\ IdleSess /\ IdleHc /\ IdleKc

----------------------------------------------------------------------------
(* Specifications of the codec *)

MaxSaltLen == 32
MaxWire == MaxSaltLen + MaxWrites * (LenLen + TagLen + MaxSmallLen + TagLen)

InitCodec(methods, holds) ==
  /\ \E m \in methods :
       /\ enc = NewEncryptor(m)
       /\ \E h \in holds : dec = NewDecryptor(m, h)
  /\ writes = <<>>
  /\ wire = <<>>
  /\ seals = <<>>
  /\ fed = 0
  /\ out = <<>>
  /\ fp = <<>>
  /\ flip = -1
  /\ loc = NewSocketHandler("js", "tcp")
  /\ srv = NewServerHandler("js", 0)

\* Encryptor alone, chunk lengths around MAX_PAYLOAD
InitEnc == InitCodec(Methods, {FALSE}) /\ lens = BigLens /\ InitUnits

NextEnc == \E n \in lens : EncWrite(n)

SpecEnc == InitEnc /\ [][NextEnc]_vars

\* Encryptor piped into a Decryptor over a faithful transport that re-chunks freely
Init == InitCodec(Methods, BOOLEAN) /\ lens = SmallLens /\ InitUnits

Next ==
  \/ \E n \in lens : EncWrite(n)
  \/ \E n \in 1..MaxWire : DecWrite(n)

Spec == Init /\ [][Next]_vars

\* Encryptor piped into a Decryptor over a transport that may flip one bit
TamperMethods == {"aes-128-gcm"}

InitTamper == InitCodec(TamperMethods, BOOLEAN) /\ lens = SmallLens \ {0} /\ InitUnits

NextTamper ==
  \/ \E n \in lens : EncWrite(n)
  \/ \E n \in 1..MaxWire : DecWrite(n)
  \/ \E p \in 0..(MaxWire - 1) : Tamper(p)

SpecTamper == InitTamper /\ [][NextTamper]_vars

\* Encryptor piped into a Decryptor over a transport that may end at any byte
InitTrunc == InitCodec({"aes-128-gcm"}, BOOLEAN) /\ lens = SmallLens /\ InitUnits

NextTrunc ==
  \/ \E n \in lens : EncWrite(n)
  \/ \E n \in 1..MaxWire : DecWrite(n)
  \/ DecEnd

SpecTrunc == InitTrunc /\ [][NextTrunc]_vars

\* the codec with one method, over empty, one-byte and longest small writes
HoldMethods == {"aes-128-gcm"}
HoldLens == {0, 1, MaxSmallLen}

InitHold == InitCodec(HoldMethods, BOOLEAN) /\ lens = HoldLens /\ InitUnits

SpecHold == InitHold /\ [][Next]_vars

\* one client connection of the local peer, for each implementation and tunnel flavor
InitLocal ==
  /\ enc = NewEncryptor("aes-128-gcm")
  /\ dec = NewDecryptor("aes-128-gcm", FALSE)
  /\ writes = <<>> /\ wire = <<>> /\ seals = <<>> /\ fed = 0 /\ out = <<>> /\ fp = <<>>
  /\ flip = -1 /\ lens = {}
  /\ \E impl \in Impls, tunnel \in Tunnels :
       /\ (impl = "js" => tunnel = "tcp")
       /\ loc = NewSocketHandler(impl, tunnel)
  /\ srv = NewServerHandler("js", 0)
  /\ InitUnits

SpecLocal == InitLocal /\ [][NextLocal]_vars

\* one tunnel connection of the server peer, for each server and configured timeout
InitServer ==
  /\ enc = NewEncryptor("aes-128-gcm")
  /\ dec = NewDecryptor("aes-128-gcm", TRUE)
  /\ writes = <<>> /\ wire = <<>> /\ seals = <<>> /\ fed = 0 /\ out = <<>> /\ fp = <<>>
  /\ flip = -1 /\ lens = {}
  /\ loc = NewSocketHandler("js", "tcp")
  /\ \E impl \in SrvImpls, configured \in ConfiguredTimeouts :
       srv = NewServerHandler(impl, configured)
  /\ InitUnits

SpecServer == InitServer /\ [][NextServer]_vars

\* Encryptor piped into a Decryptor over a transport that may flip a bit of the salt
InitSalt == InitCodec({"aes-128-gcm"}, BOOLEAN) /\ lens = {1, MaxSmallLen} /\ InitUnits

NextSalt ==
  \/ \E n \in lens : EncWrite(n)
  \/ \E n \in 1..MaxWire : DecWrite(n)
  \/ \E p \in 0..(dec.saltLen - 1) : Tamper(p)

SpecSalt == InitSalt /\ [][NextSalt]_vars

\* a Decryptor fed by a sender that may seal frames by hand: a frame that declares no
\* payload, or more than MAX_PAYLOAD
ForeignFrames == {<<0, 0>>, <<MAX_PAYLOAD + 1, 1>>, <<65535, 1>>}

InitForeign == InitCodec({"aes-128-gcm"}, BOOLEAN) /\ lens = {1} /\ InitUnits

NextForeign ==
  \/ \E n \in lens : EncWrite(n)
  \/ \E f \in ForeignFrames : ForeignFrame(f[1], f[2])
  \/ \E n \in 1..MaxWire : DecWrite(n)

SpecForeign == InitForeign /\ [][NextForeign]_vars

\* the address codec on its own: a request goes through the local peer's cut and the
\* server's parser, or a buffer is handed to the parser as it is
InitAddr ==
  /\ InitCodec({"aes-128-gcm"}, {FALSE}) /\ lens = {} /\ IdleDns /\ IdleCtr /\ IdleRelay /\ IdleSess /\ IdleHc /\ IdleKc
  /\ \/ \E data \in ConnectRequests : addr = NewHeader("request", data, <<>>)
     \/ \E head \in RawHeads : addr = NewHeader("head", <<>>, head)

NextAddr ==
  \/ AddrExtract
  \/ \E answer \in Answers : AddrParse(answer)

SpecAddr == InitAddr /\ [][NextAddr]_vars

\* the resolver on its own: callers ask for names while resolutions are outstanding
InitDns == InitCodec({"aes-128-gcm"}, {FALSE}) /\ lens = {} /\ IdleAddr /\ IdleDns /\ IdleCtr /\ IdleRelay /\ IdleSess /\ IdleHc /\ IdleKc

NextDns ==
  \/ \E c \in Callers, h \in Hosts : DnsLookup(c, h)
  \/ \E h \in Hosts, i \in Callers, got \in Ips \cup {"fail"} : DnsSettle(h, i, got)
  \/ \E h \in Hosts : DnsExpire(h)

SpecDns == InitDns /\ [][NextDns]_vars

\* the nonce counter on its own, from any of CounterValues
InitNonce ==
  /\ InitCodec({"aes-128-gcm"}, {FALSE}) /\ lens = {} /\ IdleAddr /\ IdleDns /\ IdleRelay /\ IdleSess /\ IdleHc /\ IdleKc
  /\ \E start \in CounterValues : ctr = NewCounter(start)

NextNonce == NonceIncrease

SpecNonce == InitNonce /\ [][NextNonce]_vars

\* one direction of one session of any peer, relaying
InitRelay ==
  /\ InitCodec({"aes-128-gcm"}, {FALSE}) /\ lens = {} /\ IdleAddr /\ IdleDns /\ IdleCtr /\ IdleSess /\ IdleHc /\ IdleKc
  /\ \E peer \in RelayPeers, dir \in RelayDirs : relay = NewRelay(peer, dir)

NextRelay ==
  \/ RelayRead
  \/ RelayCodec
  \/ RelaySent
  \/ RelayStall

SpecRelay == InitRelay /\ [][NextRelay]_vars

\* two sessions of one process, their operations interleaved
InitSess ==
  /\ InitCodec({"aes-128-gcm"}, {FALSE}) /\ lens = {}
  /\ IdleAddr /\ IdleDns /\ IdleCtr /\ IdleRelay /\ IdleSess /\ IdleHc /\ IdleKc

NextSess ==
  \/ \E j \in Sessions, method \in SessMethods : SessOpen(j, method)
  \/ \E j \in Sessions, salt \in SessSalts : SessConnect(j, salt)
  \/ \E j \in Sessions : SessSeal(j)
  \/ \E j \in Sessions, salt \in SessSalts : SessSalt(j, salt)
  \/ \E j \in Sessions : SessCarry(j)
  \/ \E j \in Sessions : SessLength(j)
  \/ \E j \in Sessions : SessPayload(j)

SpecSess == InitSess /\ [][NextSess]_vars


\* one call of Socks5Client.connect against a SOCKS5 endpoint that answers or fails
InitHc ==
  /\ InitCodec({"aes-128-gcm"}, {FALSE}) /\ lens = {}
  /\ IdleAddr /\ IdleDns /\ IdleCtr /\ IdleRelay /\ IdleSess /\ IdleKc
  /\ \E host \in HcHosts, port \in HcPorts : hc = NewConnect(host, port)

NextHc ==
  \/ HcConnect
  \/ \E res \in {MethodReply(0), MethodReply(255)} : HcMethodReply(res)
  \/ \E res2 \in {Reply(0), Reply(5)} : HcReply(res2)
  \/ HcError

SpecHc == InitHc /\ [][NextHc]_vars


\* the master-key cache on its own: calls with any password and any registered keyLen
InitKc ==
  /\ InitCodec({"aes-128-gcm"}, {FALSE}) /\ lens = {}
  /\ IdleAddr /\ IdleDns /\ IdleCtr /\ IdleRelay /\ IdleSess /\ IdleHc /\ IdleKc

NextKc == \E password \in KeyPasswords, keyLen \in KeyLens : KeyCall(password, keyLen)

SpecKc == InitKc /\ [][NextKc]_vars

----------------------------------------------------------------------------
(* Vocabulary of the properties *)

\* frames on the wire: frame f (from 1) is cells 4f-2 .. 4f+1 (len, tag, pay, tag)
NumFrames == Cardinality({i \in 1..Len(wire) : wire[i].type = "pay"})
LenCellOf(f) == 4 * f - 2
PayCellOfFrame(f) == 4 * f

RECURSIVE SegsLen(_)
SegsLen(segs) == IF segs = <<>> THEN 0 ELSE (Head(segs).b - Head(segs).a) + SegsLen(Tail(segs))

\* the first n bytes of the plaintext stream
PlainPrefix(n) == IF n = 0 THEN <<>> ELSE <<Seg(0, n, TRUE)>>

\* all the plaintext the Decryptor has output: firstPayload events, then the data output
PlainOut == AppendSegs(ConcatSegs(fp), out)

\* the little-endian encoding of k on n bytes
RECURSIVE LEBytes(_, _)
LEBytes(k, n) == IF n = 0 THEN <<>> ELSE <<k % 256>> \o LEBytes(k \div 256, n - 1)

\* a Decryptor run as a pure function of the chunks it is fed
StartRun(d) == [d |-> d, out |-> <<>>, fp |-> <<>>]
FeedRunWith(st, r) ==
  [d |-> r.d, out |-> AppendSegs(st.out, r.pushed), fp |-> st.fp \o r.events]
FeedRun(st, chunk) ==
  IF st.d.err # "" THEN st ELSE FeedRunWith(st, DecryptorUpdate(st.d, chunk))
\* what an observer compares: the object (staged first payload as bytes) and the outputs
RunView(st) ==
  [d |-> [st.d EXCEPT !.firstPayloads = ConcatSegs(st.d.firstPayloads)],
   out |-> st.out, fp |-> st.fp]
FreshDecryptor == NewDecryptor(dec.method, dec.emitFirstPayload)
WholeRun == FeedRun(StartRun(FreshDecryptor), Buf(0, WireLen))
SplitRun(k) == FeedRun(FeedRun(StartRun(FreshDecryptor), Buf(0, k)), Buf(k, WireLen))

----------------------------------------------------------------------------
(* C1 *)

\* C1: codec round-trip.  However the wire is re-chunked, the Decryptor raises no
\* error, outputs only the plaintext written so far, in order, and once it has been
\* fed the complete wire it has output exactly the concatenated plaintext.
C1_RoundTrip ==
  /\ dec.err = ""
  /\ \E n \in 0..PlainLen : PlainOut = PlainPrefix(n)
  /\ (fed = WireLen /\ dec.buf = NullBuf) => PlainOut = PlainPrefix(PlainLen)

(* C2 *)

\* C2: boundary robustness.  For every byte position k of the wire, feeding
\* [0, k) then [k, end) gives the same outputs, the same final Decryptor state
\* and the same error, if any, as feeding the whole wire in one call.
C2_SplitEqualsWhole ==
  fed = 0 => \A k \in 1..(WireLen - 1) : RunView(SplitRun(k)) = RunView(WholeRun)

(* C3 *)

\* the cell that holds wire position p, 0 when the wire is shorter
CellHolding(p) ==
  LET S == {i \in 1..Len(wire) : wire[i].at <= p /\ p < wire[i].at + wire[i].len}
  IN IF S = {} THEN 0 ELSE CHOOSE i \in S : TRUE
\* the frame (from 1) of cell i > 1
FrameOfCell(i) == (i + 2) \div 4
\* plaintext bytes of the frames that precede the frame of the tampered cell
PlainBeforeFlip == wire[PayCellOfFrame(FrameOfCell(CellHolding(flip)))].pt.a
\* wire position just after the tampered cell and its tag
FlippedCellEnd ==
  LET i == CellHolding(flip)
  IN IF wire[i].type = "tag" THEN wire[i].at + wire[i].len
     ELSE wire[i + 1].at + wire[i + 1].len

\* C3: authentication.  When a bit is flipped after the salt, the plaintext the
\* Decryptor has output (firstPayload and data output together) is only plaintext of
\* the untampered frames that precede the tampered cell, and once the tampered cell
\* and its tag have been fed the Decryptor is in error.
C3_Authentication ==
  (flip >= dec.saltLen /\ CellHolding(flip) # 0) =>
     /\ \E n \in 0..PlainBeforeFlip : PlainOut = PlainPrefix(n)
     /\ (fed >= FlippedCellEnd => dec.err # "")

(* C4 *)

\* C4: no plaintext before verification.  Every plaintext byte pushed to the data
\* output belongs to a frame whose payload tag has verified: the bytes output never
\* exceed the payload bytes of the verified frames.
C4_NoPlaintextBeforeVerification ==
  SegsLen(PlainOut) <= dec.verified

(* C5 *)

\* C5: nonce monotonicity.  An Encryptor that has emitted k frames has made exactly 2k
\* seals, with nonces 0, 1, ..., 2k-1 in that order; frame i seals its length cell with
\* nonce 2i-2 and its payload with nonce 2i-1 (frames counted from 1).
C5_NonceMonotonic ==
  /\ Len(seals) = 2 * NumFrames
  /\ \A j \in 1..Len(seals) : seals[j] = LEBytes(j - 1, NonceLen)
  /\ \A f \in 1..NumFrames :
       /\ wire[LenCellOf(f)].type = "len" /\ wire[LenCellOf(f)].nonce = LEBytes(2 * f - 2, NonceLen)
       /\ wire[PayCellOfFrame(f)].type = "pay" /\ wire[PayCellOfFrame(f)].nonce = LEBytes(2 * f - 1, NonceLen)
  /\ enc.nonce = LEBytes(2 * NumFrames, NonceLen)

\* witness: five frames over two writes, ten seals
C5_Witness == Len(writes) = 2 /\ NumFrames = 5 /\ Len(seals) = 10

(* C6 *)

\* C6: salt placement.  Whatever has been written, the salt is on the wire exactly
\* once, as its first saltLen bytes: no cell precedes it and no later cell is a salt.
C6_SaltOnceFirst ==
  /\ (wire = <<>>) = ~enc.isPutSalt
  /\ wire # <<>> =>
       /\ wire[1].type = "salt" /\ wire[1].at = 0
       /\ wire[1].len = cipherInfoMap[enc.method].saltLen
       /\ \A i \in 2..Len(wire) : wire[i].type # "salt"

\* witness: two writes, frames after the salt
C6_Witness == Len(writes) = 2 /\ NumFrames >= 2 /\ wire[1].type = "salt"

(* C7 *)

\* start of write j in the plaintext stream
WriteBase(j) == SumLens(SubSeq(writes, 1, j - 1))
\* the frames the claim expects of a chunk of n bytes at plaintext position base
ClaimedFrames(n, base) ==
  LET k == CeilDiv(n, 16383)
  IN [i \in 1..k |->
        [len |-> IF i < k THEN 16383 ELSE n - 16383 * (k - 1),
         a |-> base + 16383 * (i - 1),
         b |-> IF i < k THEN base + 16383 * i ELSE base + n]]
RECURSIVE ClaimedFramesUpTo(_)
ClaimedFramesUpTo(j) ==
  IF j = 0 THEN <<>>
  ELSE ClaimedFramesUpTo(j - 1) \o ClaimedFrames(writes[j], WriteBase(j))
\* the frames on the wire: declared length and payload slice
WireFrames ==
  [f \in 1..NumFrames |->
     [len |-> readUInt16BE(wire[LenCellOf(f)].val),
      a |-> wire[PayCellOfFrame(f)].pt.a,
      b |-> wire[PayCellOfFrame(f)].pt.b]]

\* C7: MAX_PAYLOAD split.  Every chunk of n bytes gives ceil(n / 16383) frames; all but
\* the last declare 16383, the last declares the rest; the payloads are consecutive
\* slices of the chunk in order; no frame declares more than 16383.
C7_MaxPayloadSplit ==
  /\ WireFrames = ClaimedFramesUpTo(Len(writes))
  /\ \A f \in 1..NumFrames : WireFrames[f].len <= 16383 /\ WireFrames[f].len = wire[PayCellOfFrame(f)].len

\* witness: a 40000-byte chunk gave frames declaring 16383, 16383, 7234
C7_Witness ==
  /\ writes = <<40000>>
  /\ [f \in 1..NumFrames |-> WireFrames[f].len] = <<16383, 16383, 7234>>

(* C8 *)

\* C8: hold mode.  A Decryptor created with emitFirstPayload emits 'firstPayload' at
\* most once, exactly when the first frame's payload tag has verified, carrying exactly
\* the first frame's plaintext; that plaintext never reaches the data output, and the
\* data output holds only plaintext of later frames.  Without emitFirstPayload there is
\* no event.
C8_HoldMode ==
  /\ ~dec.emitFirstPayload => fp = <<>>
  /\ dec.emitFirstPayload =>
       /\ Len(fp) <= 1
       /\ (Len(fp) = 1) = (dec.verified > 0)
       /\ (Len(fp) = 1) = dec.emitedFirstPayload
       /\ Len(fp) = 1 => fp[1] = PlainPrefix(wire[PayCellOfFrame(1)].len)
       /\ out # <<>> =>
            /\ Len(fp) = 1
            /\ \E n \in (wire[PayCellOfFrame(1)].len + 1)..PlainLen :
                 out = <<Seg(wire[PayCellOfFrame(1)].len, n, TRUE)>>

\* witness: the event was emitted and the second frame went to the data output,
\* both frames having arrived in one chunk
C8_Witness ==
  /\ dec.emitFirstPayload /\ Len(fp) = 1 /\ out # <<>>
  /\ NumFrames = 2 /\ fed = WireLen /\ dec.verified = PlainLen

----------------------------------------------------------------------------
(* Vocabulary of the local peer's properties *)

\* msg was written to the client socket while it accepted writes
ClientGot(msg) == \E i \in 1..Len(loc.toClient) : loc.toClient[i] = msg

(* C9 *)

\* C9: success reply only after connect.  For every tunnel flavor, the client has the
\* reply 05 00 00 01 00 00 00 00 00 00 only if the tunnel's transport has connected.
C9_SuccessAfterConnect == ClientGot(Reply(0)) => loc.connected

(* C10 *)

\* C10: tunnel connect failure.  When the tunnel fails before it connects, after a
\* valid request from a client that is still there, the client has the reply
\* 05 05 00 01 00 00 00 00 00 00 and its socket is closed.
C10_ConnectFailureReply ==
  (loc.failedConnect /\ ~loc.clientGone) => (ClientGot(Reply(5)) /\ loc.sock # "open")

(* C11 *)

\* the methods a greeting offers: the NMETHODS bytes that follow NMETHODS
OfferedMethods(g) == IF Len(g) < 2 THEN {} ELSE {g[i] : i \in (3..(2 + g[2])) \cap DOMAIN g}

\* C11: SOCKS5 greeting.  After a greeting with VER = 5 the client has 05 00 and the
\* session is in (or past) the request phase exactly when 0x00 is among the offered
\* methods; otherwise the client has 05 FF alone and its connection is closed; after a
\* greeting with another VER the connection is closed and nothing was written.
C11_Greeting ==
  loc.greeting # <<>> =>
    LET g == loc.greeting
    IN IF g[1] = 5 /\ 0 \in OfferedMethods(g)
       THEN /\ Len(loc.toClient) >= 1 /\ loc.toClient[1] = MethodReply(0)
            /\ (loc.pc = "request" \/ loc.request # <<>>)
       ELSE /\ loc.toClient = (IF g[1] = 5 THEN <<MethodReply(255)>> ELSE <<>>)
            /\ loc.sock # "open" /\ loc.pc = "finished"
            /\ loc.request = <<>> /\ loc.tun = "none"

\* the greeting 05 01 02 was answered 05 FF and the connection ended
C11_Witness ==
  /\ loc.greeting = <<5, 1, 2>> /\ loc.toClient = <<MethodReply(255)>> /\ loc.sock = "ended"

(* C12 *)

\* C12: SOCKS5 unsupported command.  After a request with VER = 5 and CMD other than 1
\* the client has the reply 05 07 00 01 00 00 00 00 00 00 as the last message, its
\* connection is closed and no tunnel was created.
C12_UnsupportedCommand ==
  (loc.request # <<>> /\ loc.request[1] = 5 /\ loc.request[2] # 1) =>
    /\ loc.toClient = <<MethodReply(0), Reply(7)>>
    /\ loc.sock # "open" /\ loc.tun = "none"

\* a BIND request was refused, by either implementation
C12_Witness ==
  /\ loc.request = <<5, 2, 1>> /\ ClientGot(Reply(7)) /\ loc.sock # "open" /\ loc.pc = "finished"

(* C13 *)

\* C13: SOCKS5 unsupported address type.  After a CONNECT request whose ATYP is not
\* 01, 03 or 04 the client has the reply 05 08 00 01 00 00 00 00 00 00 as the last
\* message, its connection is closed and no tunnel was created.
C13_UnsupportedAddressType ==
  (loc.request # <<>> /\ loc.request[1] = 5 /\ loc.request[2] = 1
     /\ loc.request[3] \notin {1, 3, 4}) =>
    /\ loc.toClient = <<MethodReply(0), Reply(8)>>
    /\ loc.sock # "open" /\ loc.tun = "none"

\* a CONNECT request with ATYP 02 was refused
C13_Witness ==
  /\ loc.request = <<5, 1, 2>> /\ ClientGot(Reply(8)) /\ loc.sock # "open" /\ loc.pc = "finished"

(* C14 *)

\* no timer of a live socket of the session is still to fire
Settled(l) ==
  /\ (l.sock = "destroyed" \/ ~l.sockTimer)
  /\ (l.tun = "destroyed" \/ ~l.tunTimer)

\* C14: teardown of the local peer over the tcp tunnel.  Once the tunnel socket has been
\* created and one of client socket error, client EOF, tunnel error, tunnel EOF and
\* Decryptor error has happened, a state in which no timer is left to fire has both
\* the client socket and the tunnel socket closed.
C14_TeardownTcp ==
  (loc.tunnel = "tcp" /\ loc.events # {} /\ Settled(loc)) =>
    (loc.sock = "destroyed" /\ loc.tun = "destroyed")

(* C16 *)

\* C16: teardown of the local peer over the WebSocket tunnel.  Once the WebSocket
\* tunnel has errored or closed the client socket is closed, whatever its inactivity
\* timer did; and once the client socket is closed the tunnel is destroyed.
C16_TeardownWebSocket ==
  loc.tunnel \in {"ws", "wss"} =>
    /\ (loc.events \cap {"tunnelError", "tunnelEOF"} # {} => loc.sock # "open")
    /\ (loc.sock = "destroyed" => loc.tun \in {"none", "destroyed"})

(* C19 *)

\* C19: encrypted tunnel for both transports.  For every tunnel flavor, whatever was
\* written to the tunnel is output of the session's Encryptor and whatever was delivered
\* from the tunnel to the client socket is output of the session's Decryptor.
C19_EncryptedTunnel ==
  /\ loc.toTunnel \subseteq {"encryptor:head", "encryptor:client"}
  /\ loc.fromTunnel \subseteq {"decryptor"}

----------------------------------------------------------------------------
(* Vocabulary of the server peer's properties *)

\* the close timer of a WebSocket, or the inactivity timer of a socket, is still to fire
PeerTimerPending(s) ==
  IF s.impl = "ws" THEN s.sock = "ended" ELSE s.sock # "destroyed" /\ s.sockTimer

SrvSettled(s) == ~PeerTimerPending(s) /\ (s.proxy = "destroyed" \/ ~s.proxyTimer)

(* C15 *)

\* C15: teardown of the server peer.  Once the upstream socket has been created and
\* one of peer socket error, peer EOF, upstream error, upstream EOF and Decryptor error
\* has happened, a state in which no timer is left to fire has both the peer connection
\* and the upstream socket fully closed.
C15_TeardownServer ==
  (srv.events \cap {"peerError", "peerEOF", "upstreamError", "upstreamEOF", "decryptorError"} # {}
     /\ SrvSettled(srv)) =>
    (srv.sock = "destroyed" /\ srv.proxy = "destroyed")

(* C17 *)

\* C17: inactivity timeout.  Once both endpoints of a session exist each has its timer
\* set to the configured timeout, 300 s when none is configured; and once a timer has
\* fired with both endpoints present, both endpoints are ended.
C17_InactivityTimeout ==
  LET ms == (IF srv.configured = 0 THEN 300 ELSE srv.configured) * 1000
  IN /\ (srv.proxy \in {"connecting", "open"} /\ srv.sock # "destroyed") =>
          (srv.sockTimeout = ms /\ srv.proxyTimeout = ms)
     /\ srv.timedOut # {} =>
          (srv.sock # "open" /\ (srv.proxyEnded \/ srv.proxy = "destroyed"))

(* C18 *)

\* no failure of the upstream socket or of the Decryptor happened
CleanRun(s) ==
  s.events \cap {"upstreamError", "upstreamEOF", "upstreamTimeout", "decryptorError"} = {}

\* what the upstream is due once it has connected: the rest of the first payload, then
\* the chunks decrypted so far
Expected(s) ==
  (IF s.headLeft /\ s.proxy # "connecting" THEN <<"headLeft">> ELSE <<>>)
    \o [i \in 1..s.decrypted |-> i]

\* C18: pre-connect buffering.  Nothing reaches the upstream socket before it connects;
\* in a session without upstream or Decryptor failure what was written to the upstream,
\* followed by what the session still holds, is the rest of the first payload and then
\* every decrypted chunk in order; and the end handler ends the upstream only after all
\* of it has been written.
C18_PreConnectBuffering ==
  /\ srv.proxy \in {"none", "connecting"} => (srv.upstream = <<>> /\ ~srv.early)
  /\ (srv.pc # "handshake" /\ CleanRun(srv)) =>
       /\ srv.upstream \o srv.beforeProxyBuffer \o srv.rbuf = Expected(srv)
       /\ srv.lost = 0 /\ ~srv.crashed
       /\ srv.upstreamEndAt >= 0 =>
            (srv.decEnded /\ srv.proxy # "connecting" /\ srv.upstream = Expected(srv)
               /\ srv.upstreamEndAt = Len(srv.upstream))

\* the peer's EOF came before the upstream connected; after the connect the upstream got
\* the rest of the first payload and both decrypted chunks, and was ended after them
C18_Witness ==
  /\ srv.eofBeforeConnect /\ srv.pc = "relay" /\ CleanRun(srv)
  /\ srv.upstream = <<"headLeft", 1, 2>> /\ srv.upstreamEndAt = 3 /\ srv.proxyEnded

(* C20 *)

\* a first payload that is too short for its ATYP, of an unrecognized ATYP, or whose
\* domain does not resolve
BadHead(h) ==
  \/ h.atyp \notin {1, 3, 4}
  \/ h.atyp = 1 /\ h.len < 7
  \/ h.atyp = 4 /\ h.len < 19
  \/ h.atyp = 3 /\ (h.len < 2 \/ h.len < 4 + h.domainLen)
  \/ h.atyp = 3 /\ h.dns = "fail"

\* C20: address failure is session-fatal.  In every server, once the address of such a
\* first payload has been handled, the peer connection is closed and no upstream
\* connection was opened.
C20_AddressFailureFatal ==
  (srv.pc \notin {"handshake", "parsing"} /\ BadHead(srv.head)) =>
    (srv.sock # "open" /\ srv.proxy = "none")

----------------------------------------------------------------------------
(* C21 *)

\* the destination a well-formed CONNECT request names
DestinationOf(data) == CHOOSE d \in Destinations : data = <<5, 1, 0>> \o HeaderOf(d)

\* C21: address header round-trip.  For every destination of every kind, the header the
\* local peer cuts out of the well-formed CONNECT request for it, parsed by the server's
\* address parser, gives the same kind, the same host or domain name, the same port and
\* an empty remainder.
C21_AddressRoundTrip ==
  (addr.pc = "parsed" /\ addr.data \in ConnectRequests) =>
     LET d == DestinationOf(addr.data)
     IN /\ addr.result.ok
        /\ addr.result.type = d[1]
        /\ (IF d[1] = "domain" THEN addr.result.domain = d[2] ELSE addr.result.host = d[2])
        /\ addr.result.port = d[3]
        /\ addr.result.headLeft = <<>>

(* C22 *)

\* C22: tampered salt.  When a byte of the salt was flipped in transit, the Decryptor
\* never pushes plaintext to its data output and never emits firstPayload; once the
\* salt and the first length cell have been fed it is in error, and the error of the
\* crypto is raised at the first length cell, with the nonce still zero.
C22_TamperedSalt ==
  (flip >= 0 /\ flip < dec.saltLen) =>
     /\ out = <<>> /\ fp = <<>> /\ dec.verified = 0
     /\ (fed >= dec.saltLen + LenLen + TagLen => dec.err # "")
     /\ (dec.err = "auth" => dec.state = 2 /\ dec.nonce = ZeroNonce)
     /\ dec.err \in {"", "auth", "invalid salt"}

\* witness: byte 0 of the salt flipped, a holding Decryptor fed the salt and two whole
\* frames in one chunk, and it failed
C22_Witness ==
  /\ flip = 0 /\ dec.emitFirstPayload /\ NumFrames = 2 /\ fed = WireLen
  /\ dec.err = "auth" /\ fp = <<>> /\ out = <<>>

(* C23 *)

\* the length frame f declares
DeclaredLen(f) == readUInt16BE(wire[LenCellOf(f)].val)
\* the first frame on the wire whose declared length lies in S, 0 when none
FirstFrameIn(S) ==
  LET F == {f \in 1..NumFrames : DeclaredLen(f) \in S}
  IN IF F = {} THEN 0 ELSE CHOOSE f \in F : \A g \in F : f <= g

\* C23: invalid declared length is fatal.  Once the length cell of a frame that declares
\* 0 or more than 16383 has been fed with its tag, the Decryptor is in error, and what
\* it has output is only plaintext of the frames before that frame.
C23_InvalidLengthFatal ==
  LET f == FirstFrameIn({0} \cup (16384..65535))
  IN (f # 0 /\ fed >= wire[LenCellOf(f)].at + LenLen + TagLen) =>
        /\ dec.err # ""
        /\ SegsLen(PlainOut) <= wire[PayCellOfFrame(f)].pt.a

(* C24 *)

\* C24: length check before nonce increment.  When the Decryptor has raised 'invalid
\* payload len', its nonce is still the nonce that opened the length cell of the frame
\* that declares more than MAX_PAYLOAD.
C24_LengthCheckBeforeIncrement ==
  dec.err = "invalid payload len" =>
     dec.nonce = wire[LenCellOf(FirstFrameIn((MAX_PAYLOAD + 1)..65535))].nonce

(* C25 *)

\* the length of the header a buffer announces: ATYP, address, port
AnnouncedLen(h) ==
  CASE h[1] = 1 -> 7
    [] h[1] = 3 -> 4 + h[2]
    [] h[1] = 4 -> 19
\* the buffers the parser is to refuse
MustFail(h) ==
  \/ h = <<>>
  \/ h[1] \notin {1, 3, 4}
  \/ (h[1] = 3 /\ Len(h) < 2)
  \/ Len(h) < AnnouncedLen(h)

\* C25: address parser.  The parser fails on every buffer that is too short for its
\* address type (a domain buffer without length byte included) and on every buffer of
\* another address type; on every other buffer it returns the kind, the address, the
\* big-endian port and, as remainder, exactly the bytes after the header.
C25_ParserFailureConditions ==
  addr.pc = "parsed" =>
     LET h == addr.head
         n == AnnouncedLen(h)
     IN IF MustFail(h) THEN ~addr.result.ok
        ELSE /\ addr.result.ok
             /\ addr.result.type = (CASE h[1] = 1 -> "ipv4" [] h[1] = 3 -> "domain" [] h[1] = 4 -> "ipv6")
             /\ (IF h[1] = 3 THEN addr.result.domain = SubSeq(h, 3, n - 2)
                 ELSE addr.result.host = SubSeq(h, 2, n - 2))
             /\ addr.result.port = h[n - 1] * 256 + h[n]
             /\ addr.result.headLeft = SubSeq(h, n + 1, Len(h))

(* C26 *)

\* the bytes a greeting needs: VER, NMETHODS and NMETHODS methods
ShortGreeting(g) == Len(g) < 2 \/ Len(g) < 2 + g[2]
\* the bytes a request needs: VER, CMD, RSV, ATYP, the address of that ATYP and the port
ShortRequest(d) ==
  \/ Len(d) < 4
  \/ (d[4] = 1 /\ Len(d) < 10)
  \/ (d[4] = 3 /\ (Len(d) < 5 \/ Len(d) < 7 + d[5]))
  \/ (d[4] = 4 /\ Len(d) < 22)

\* C26: SOCKS5 short read.  After a greeting or a request that ends before the fields it
\* declares, the client connection is closed, the session goes no further and no tunnel
\* was opened.
C26_ShortRead ==
  /\ (loc.greeting # <<>> /\ ShortGreeting(loc.greeting)) =>
        (loc.sock # "open" /\ loc.pc = "finished" /\ loc.requestData = <<>>)
  /\ (loc.requestData # <<>> /\ ShortRequest(loc.requestData)) =>
        (loc.sock # "open" /\ loc.tun = "none" /\ loc.toTunnel = {})

(* C27 *)

\* C27: DNS single-flight.  At most one raw resolution is outstanding per hostname;
\* a caller that asked for a hostname while a resolution for it was outstanding started
\* none of its own, and once that resolution has settled the caller has its result, the
\* address or the failure.
C27_SingleFlight ==
  /\ \A h \in Hosts : resolver.raw[h] <= 1
  /\ \A c \in Callers :
       LET k == resolver.callers[c]
       IN (k.pc # "idle" /\ k.during # 0) =>
            /\ k.joined = k.during
            /\ (resolver.outcome[k.during] # "pending" => k.pc = "done" /\ k.result = resolver.outcome[k.during])
            /\ (resolver.outcome[k.during] = "pending" => k.pc = "waiting")

\* witness: three callers asked for the same name, one resolution was started, it
\* failed, and all three have the failure
C27_Witness ==
  /\ resolver.started = 1 /\ resolver.outcome[1] = "fail"
  /\ \A c \in Callers : resolver.callers[c] = [pc |-> "done", host |-> "a.example", joined |-> 1,
                                            during |-> (IF resolver.callers[c].during = 0 THEN 0 ELSE 1),
                                            result |-> "fail"]

(* C28 *)

\* C28: backpressure.  In every direction of a session of either peer the bytes
\* buffered inside the session stay bounded (the codec and the destination hold at most
\* their high-water marks), and while the destination is not draining and its buffer is
\* at the mark nothing more is handed to it.
C28_Backpressure ==
  /\ relay.tbuf <= HighWaterMark
  /\ relay.wbuf <= HighWaterMark
  /\ (~relay.draining /\ relay.wbuf >= HighWaterMark) => relay.codecPaused

(* C29 *)

\* what a session's codec holds, the Buffers read through the heap
SessionView(S, j) ==
  LET k == S.s[j]
  IN [decNonce |-> IF k.decNonce = 0 THEN ZeroNonce ELSE S.heap[k.decNonce].val,
      encNonce |-> IF k.encNonce = 0 THEN ZeroNonce ELSE S.heap[k.encNonce].val,
      decKey |-> k.decKey, encKey |-> k.encKey,
      buf |-> k.buf, state |-> k.state,
      isGotSalt |-> k.isGotSalt, isPutSalt |-> k.isPutSalt,
      opened |-> k.opened, sealed |-> k.sealed]

\* the Buffers of the heap a session's codec refers to
SessionRefs(S, j) == {S.s[j].mainkey, S.s[j].decNonce, S.s[j].encNonce} \ {0}

\* sessions share nothing but cached master keys, the cached bytes are the derived
\* key, and the plaintext at a session's end was decrypted by that session
SessionsApart ==
  /\ \A i \in Sessions, j \in Sessions :
       i # j => SessionRefs(sess, i) \cap SessionRefs(sess, j)
                  \subseteq {sess.keyCache[k] : k \in KeyLens}
  /\ \A k \in KeyLens :
       sess.keyCache[k] # 0 => sess.heap[sess.keyCache[k]].val = evpBytesToKey(Password, k)
  /\ \A j \in Sessions : \A n \in 1..Len(sess.delivered[j]) : sess.delivered[j][n][1] = j

\* an operation of one session leaves every other session's codec as it was
OthersUntouched ==
  \A j \in Sessions : j # sess'.last => SessionView(sess', j) = SessionView(sess, j)

\* C29: session independence.  In every interleaving of the operations of concurrent
\* sessions an operation on one session's Encryptor or Decryptor changes no other
\* session's nonce, subkey, carry buffer or state; plaintext decrypted in a session
\* reaches only that session's own socket; the master-key cache is the only codec
\* state the sessions share, and the cached key bytes are never modified.
C29_SessionIndependence == []SessionsApart /\ [][OthersUntouched]_vars

\* witness: two sessions of the same method hold the same cached master key, one has
\* decrypted a frame and encrypted one, the other has opened a length cell and has its
\* Encryptor, and their nonces stand at different values
C29_Witness ==
  /\ sess.s[1].open /\ sess.s[2].open
  /\ sess.s[1].mainkey = sess.s[2].mainkey
  /\ sess.s[1].opened = 1 /\ sess.s[2].opened = 0 /\ sess.s[2].state = 3
  /\ sess.s[1].sealed = 1 /\ sess.s[2].sealed = 0 /\ sess.s[2].encNonce # 0
  /\ SessionView(sess, 1).decNonce # SessionView(sess, 2).decNonce
  /\ SessionView(sess, 1).encNonce # SessionView(sess, 2).encNonce
  /\ sess.delivered[1] = <<<<1, 1>>>>

(* C30 *)

\* the buffer read as a little-endian integer, in four limbs of 24 bits, lowest first
Limb == 256 * 256 * 256
LimbsOf(nonce) == [k \in 1..4 |-> nonce[3 * k - 2] + 256 * nonce[3 * k - 1] + 65536 * nonce[3 * k]]

\* limbs plus n modulo 2^96
PlusMod96(limbs, n) ==
  LET s1 == limbs[1] + n
      s2 == limbs[2] + s1 \div Limb
      s3 == limbs[3] + s2 \div Limb
      s4 == limbs[4] + s3 \div Limb
  IN <<s1 % Limb, s2 % Limb, s3 % Limb, s4 % Limb>>

\* C30: nonce counter arithmetic.  The 12-byte nonce is a little-endian unsigned 96-bit
\* integer: n calls of increase add n to it modulo 2^96 (from zero it holds n), the
\* carry going from byte 0 upward, and the all-0xFF value wraps to zero without an error.
C30_NonceArithmetic ==
  /\ LimbsOf(ctr.nonce) = PlusMod96(LimbsOf(ctr.start), ctr.calls)
  /\ \A i \in 1..NonceLen : ctr.nonce[i] \in 0..255
  /\ (ctr.start = ZeroNonce => LimbsOf(ctr.nonce) = <<ctr.calls, 0, 0, 0>>)

\* witness: the all-0xFF counter increased once, now all zero
C30_Witness ==
  /\ ctr.start = [i \in 1..NonceLen |-> 255]
  /\ ctr.calls = 1
  /\ ctr.nonce = ZeroNonce

(* C31 *)

\* what a handler did to the two sockets of a session
SocketActions(s) == [sock |-> s.sock, proxy |-> s.proxy, proxyEnded |-> s.proxyEnded]

\* what the session's transport error handlers would do in the same state
TransportErrorActions(s) ==
  {SocketActions(OnSrvSocketError(s))}
    \cup (IF s.proxy \in {"connecting", "open"} THEN {SocketActions(OnProxyError(s))} ELSE {})

\* C31: no error frames on authentication failure.  After a Decryptor raises a fatal
\* error the peer writes nothing toward the other peer in response, and what it does to
\* its sockets is what it does for a transport error on that session.
C31_NoErrorFrames ==
  [][(~srv.decError /\ srv'.decError) => SocketActions(srv') \in TransportErrorActions(srv)]_vars

(* C32 *)

\* C32: the upstream socket is never used before it exists.  In the server peer, also
\* for a peer that closes before it sent a complete first frame or after the salt
\* alone, no 'data' or 'end' handler of the Decryptor calls proxy.write or proxy.end
\* while the session's upstream socket is unset.
C32_UpstreamExists == ~srv.crashed

(* C33 *)

\* wire positions right after the salt and right after a payload tag
FrameBoundaries ==
  {wire[i].at + wire[i].len :
     i \in {k \in 1..Len(wire) : \/ wire[k].type = "salt"
                                \/ (wire[k].type = "tag" /\ k > 1 /\ wire[k - 1].type = "pay")}}

RequestReplies(l) == {i \in 1..Len(l.toClient) : Len(l.toClient[i]) = Len(Reply(0))}

\* C34: at most one request reply.  For every client connection of the local peer and
\* every order of tunnel events, at most one SOCKS5 request reply is written to the
\* client socket, and none is written after the socket was ended or destroyed.
C34_AtMostOneReply ==
  /\ Cardinality(RequestReplies(loc)) <= 1
  /\ loc.lateWrites = 0

(* C35 *)

\* the request Socks5Client.connect wrote, <<>> when none
HcRequest(c) == IF Len(c.sent) < 2 THEN <<>> ELSE c.sent[2]

\* C35: HTTP CONNECT helper port encoding.  Socks5Client.connect encodes every port
\* 0..65535 as the 2-byte big-endian unsigned DST.PORT of its request, and for every
\* port its promise settles: once the method reply 05 00 has come the request is on the
\* wire, and no handler stops with the promise left pending.
C35_PortEncoding ==
  /\ hc.pc # "thrown"
  /\ hc.pc \in {"request", "done"} /\ hc.promise # "rejected" =>
       /\ HcRequest(hc) # <<>>
       /\ SubSeq(HcRequest(hc), Len(HcRequest(hc)) - 1, Len(HcRequest(hc)))
            = <<hc.port \div 256, hc.port % 256>>
  /\ hc.pc = "done" => hc.promise # "pending"

(* C36 *)

\* C36: carry buffer bound.  In every state of a Decryptor after the salt is read the
\* carry buffer holds fewer than 18 bytes while a length cell is awaited, fewer than 16
\* bytes while a payload tag is awaited, and nothing in the middle of a payload or at a
\* frame boundary: never more than the current state still needs.
C36_CarryBufferBound ==
  dec.isGotSalt =>
    \/ dec.buf = NullBuf
    \/ dec.state = 2 /\ Length(dec.buf) < LenLen + TagLen
    \/ dec.state = 4 /\ Length(dec.buf) < TagLen

\* witness: after a verified frame the carry buffer holds all of the next payload tag
\* but its last byte
C36_Witness ==
  /\ dec.isGotSalt /\ dec.verified > 0
  /\ dec.state = 4
  /\ dec.buf # NullBuf /\ Length(dec.buf) = TagLen - 1

(* C38 *)

\* frames whose payload tag lies wholly within the bytes fed to the Decryptor
FramesFed ==
  Cardinality({k \in 2..Len(wire) : /\ wire[k].type = "tag" /\ wire[k - 1].type = "pay"
                                    /\ wire[k].at + wire[k].len <= fed})

\* the nonce as an integer, while it is below 2^24
NonceValue(nonce) == nonce[1] + 256 * nonce[2] + 65536 * nonce[3]

\* C38: Decryptor nonce/state coupling.  In every state without an error, after i
\* complete frames the nonce is 2i while a length cell is awaited and 2i + 1 while
\* payload bytes or a payload tag are awaited; in the frame-boundary state 1 the staged
\* payload length, the handled count, the payload decipher and the carry buffer are
\* all reset.
C38_NonceStateCoupling ==
  dec.err = "" =>
    /\ dec.state \in {1, 2} => NonceValue(dec.nonce) = 2 * FramesFed
    /\ dec.state \in {3, 4} => NonceValue(dec.nonce) = 2 * FramesFed + 1
    /\ dec.state = 1 =>
         /\ dec.payloadLen = 0 /\ dec.handledPayloadLen = 0
         /\ dec.cipher2 = NullCipher /\ dec.buf = NullBuf

\* witness: one frame is complete and the payload of the second is under way
C38_Witness ==
  /\ dec.err = ""
  /\ FramesFed = 1
  /\ dec.state = 3 /\ dec.handledPayloadLen > 0
  /\ NonceValue(dec.nonce) = 3

(* C37 *)

\* C37: master-key cache transparency.  For every sequence of calls and every
\* (password, keyLen) with keyLen in the cipher registry the cached evpBytesToKey
\* returns what the uncached derivation gives for that pair, and two distinct pairs
\* never share a cache entry.
C37_CacheTransparency ==
  /\ \A i \in 1..Len(kc.calls) :
       kc.calls[i].value = evpBytesToKey(kc.calls[i].password, kc.calls[i].keyLen)
  /\ \A p \in KeyPasswords, q \in KeyPasswords : \A k \in KeyLens, l \in KeyLens :
       (\E e \in kc.cache : e.key = CacheKey(p, k) /\ e.key = CacheKey(q, l)) => (p = q /\ k = l)
  /\ \A e \in kc.cache, f \in kc.cache : e.key = f.key => e = f

\* witness: the same password asked with two key lengths, the first pair asked again and
\* served from the cache
C37_Witness ==
  /\ Len(kc.calls) = 3
  /\ kc.calls[1].password = <<"a", "1">> /\ kc.calls[1].keyLen = 16
  /\ kc.calls[2].password = <<"a", "1">> /\ kc.calls[2].keyLen = 32
  /\ kc.calls[3] = kc.calls[1]
  /\ Cardinality(kc.cache) = 2
====
